---- MODULE Spec2Model ----
(***************************************************************************)
(* A model of the engine layer of the RubeGoldberg demo: the frame timer   *)
(* CTimer, the sound-instance pool CSoundManager, the sprite registry      *)
(* CSpriteManager with its C3DSprite objects, the renderer CRenderer with  *)
(* its CShader and CSpriteSheet, and the message loop of DefaultWinMain.   *)
(*                                                                         *)
(* Each class is a group of variables (its fields), its constructor is an  *)
(* initial-state predicate and each method is one action.  Each part has   *)
(* a specification of its own (SpecTimer, SpecSound, SpecSprite, ...) in   *)
(* which the parts it does not use are at rest.                            *)
(*                                                                         *)
(* Variables that are not fields of the program are marked "history":      *)
(* they record what the last call was, what it returned and which calls    *)
(* it made into the external libraries, so that properties of a call can   *)
(* be stated over states.                                                  *)
(***************************************************************************)
EXTENDS Integers, Sequences, FiniteSets, TLC

(***************************************************************************)
(* CTimer (timer.cpp / Timer.h)                                            *)
(***************************************************************************)
VARIABLES
  clock,                  \* the value timeGetTime() returns now
  m_nStartTime,           \* CTimer::m_nStartTime
  m_nCurrentTime,         \* CTimer::m_nCurrentTime, what time() returns
  m_nLastFrameStartTime,  \* CTimer::m_nLastFrameStartTime
  m_nFrameTime,           \* CTimer::m_nFrameTime, what frametime() returns
  m_nLevelStartTime,      \* CTimer::m_nLevelStartTime
  m_nLevelFinishTime,     \* CTimer::m_nLevelFinishTime
  m_bLevelTimerOn,        \* CTimer::m_bLevelTimerOn
  m_bStepMode,            \* CTimer::m_bStepMode
  start,                  \* the caller's variable passed as elapsed(int& start, ..)
  acc,                    \* history: frame time accumulated since start was last reset
  tOp,                    \* history: the last CTimer call, [name, interval]
  tRet                    \* history: what the last elapsed() returned

timerVars == <<clock, m_nStartTime, m_nCurrentTime, m_nLastFrameStartTime,
               m_nFrameTime, m_nLevelStartTime, m_nLevelFinishTime,
               m_bLevelTimerOn, m_bStepMode, start, acc, tOp, tRet>>

(***************************************************************************)
(* CSoundManager (Sound.cpp)                                               *)
(***************************************************************************)
VARIABLES
  m_nCount,               \* CSoundManager::m_nCount, number of sounds loaded
  m_nInstanceCount,       \* CSoundManager::m_nInstanceCount, the allocated array:
                          \*   its DOMAIN is 0..m_nMaxSounds-1, empty before Load()
  instState,              \* GetState() of m_pInstance[i][j]: "STOPPED" or "PLAYING"
  m_nLastPlayedSound,     \* CSoundManager::m_nLastPlayedSound
  m_nLastPlayedInstance,  \* CSoundManager::m_nLastPlayedInstance
  sFault,                 \* "none", or the undefined behaviour the last call ran into
  sOp,                    \* history: the last call, [name, index, instance]
  sRet,                   \* history: what the last play()/loop() returned
  sCalls,                 \* history: the calls the last call made on sound instances
  sTouched,               \* history: whether the last call read the instance arrays
  sPrev,                  \* history: "started" when the call before the last one
                          \*   was a play()/loop() that started an instance
  run                     \* history: [index, k]: the last k calls were play(index),
                          \*   the first of them with every instance of index idle

soundVars == <<m_nCount, m_nInstanceCount, instState,
               m_nLastPlayedSound, m_nLastPlayedInstance, sFault, sOp, sRet,
               sCalls, sTouched, sPrev, run>>

(***************************************************************************)
(* CSpriteManager and C3DSprite (SpriteMan.cpp, sprite.cpp)                *)
(***************************************************************************)
VARIABLES
  g_xmlSettings,          \* the settings: "null", "nosprites" (no <sprites> tag)
                          \*   or "sprites"
  m_pSprite,              \* CSpriteManager::m_pSprite: slot -> sprite object, 0 = nullptr
  sprites,                \* the C3DSprite objects constructed so far, by object number:
                          \*   [m_pTexture, m_pVertexBuffer], each 0 (nullptr) or the
                          \*   number of the COM resource it points to
  resources,              \* the COM resources created so far: "live" or "released"
  dcTexture,              \* the texture bound to the device context (PSSetShaderResources)
  dcVertexBuffer,         \* the vertex buffer bound to it (IASetVertexBuffers)
  proc,                   \* "running", "aborted" (ABORT) or "crashed"
  dOp,                    \* history: the last call, [name, sprite]
  dCalls                  \* history: the device-context calls the last call made

spriteVars == <<g_xmlSettings, m_pSprite, sprites, resources, dcTexture,
                dcVertexBuffer, proc, dOp, dCalls>>

(***************************************************************************)
(* The level timer of CTimer (timer.cpp): what its calls return            *)
(***************************************************************************)
VARIABLES
  lRet,                   \* history: what the last GetLevelElapsedTime() returned
  lT0,                    \* history: the clock at the last StartLevelTimer(), -1 if none
  lT1                     \* history: the clock at the last StopLevelTimer(), -1 if none

levelVars == <<lRet, lT0, lT1>>

(***************************************************************************)
(* CRenderer (renderer.cpp) and CShader (Shader.cpp)                       *)
(***************************************************************************)
VARIABLES
  m_nScreenWidth,         \* CRenderer::m_nScreenWidth, a copy of g_nScreenWidth
  m_nScreenHeight,        \* CRenderer::m_nScreenHeight, a copy of g_nScreenHeight
  m_pShader,              \* the CShader: [built, m_pVertexShader, m_pPixelShader]
  m_pScreenText,          \* the CSpriteSheet of the screen text
  m_pBackground,          \* [m_pBackgroundVB, m_pBackgroundTexture], 0 = nullptr
  m_matWorld,             \* CRenderer::m_matWorld
  cb,                     \* the contents of the shader's constant buffer
  rOp,                    \* history: the last renderer call and its arguments
  rPrev,                  \* history: the name of the renderer call before it
  glyphs                  \* history: the characters the last drawtext() drew

renderVars == <<m_nScreenWidth, m_nScreenHeight, m_pShader, m_pScreenText,
                m_pBackground, m_matWorld, cb, rOp, rPrev, glyphs>>

(***************************************************************************)
(* DefaultWinMain and DefaultWindowProc (Main.cpp)                         *)
(***************************************************************************)
VARIABLES
  msgQueue,               \* the messages waiting in the thread's message queue
  quitPosted,             \* PostQuitMessage was called: GetMessage hands out
                          \*   WM_QUIT once the queue holds nothing else
  hwnd,                   \* whether the window g_HwndApp still exists
  g_bActiveApp,           \* g_bActiveApp
  loopPc,                 \* the message loop: "loop" (running), "waiting" (inside
                          \*   WaitMessage) or "returned"
  frames,                 \* history: the ProcessFrame() calls made, up to MaxFrames
  ended,                  \* history: the EndGame() calls made
  mOp,                    \* history: what the last step was, [name, msg]
  mCalls                  \* history: the calls the last loop iteration made, in order

mainVars == <<msgQueue, quitPosted, hwnd, g_bActiveApp, loopPc, frames, ended,
              mOp, mCalls>>

vars == <<timerVars, soundVars, spriteVars, levelVars, renderVars, mainVars>>

\* The largest clock value explored, and the largest single clock advance.
MaxClock == 6
MaxStep == 2
\* elapsed() is called with intervals 0..MaxInterval.
MaxInterval == 3

\* The synthetic frame time IncrementFrame() stores.
StepFrameTime == 34

TimerOp(n, i) == [name |-> n, interval |-> i]

\* CTimer::CTimer.  The constructor leaves m_nCurrentTime out of its
\* initialiser list; the program's only CTimer is the global g_cTimer, an
\* object of static storage duration, which is zero-initialised before its
\* constructor runs, so time() is 0 until the first beginframe().
CTimer_ctor ==
  /\ clock \in 0..MaxStep
  /\ m_nStartTime = 0
  /\ m_nCurrentTime = 0
  /\ m_nLastFrameStartTime = 0
  /\ m_nFrameTime = 0
  /\ m_nLevelStartTime = 0
  /\ m_nLevelFinishTime = 0
  /\ m_bLevelTimerOn = FALSE
  /\ m_bStepMode = FALSE
  /\ start = 0
  /\ acc = 0
  /\ tOp = TimerOp("ctor", 0)
  /\ tRet = FALSE
  /\ lRet = 0
  /\ lT0 = -1
  /\ lT1 = -1

\* The wall clock moves on between calls.
Tick ==
  /\ \E d \in 1..MaxStep :
       /\ clock + d <= MaxClock
       /\ clock' = clock + d
  /\ tOp' = TimerOp("Tick", 0)
  /\ UNCHANGED <<soundVars, spriteVars, levelVars, renderVars, mainVars>>
  /\ UNCHANGED <<m_nStartTime, m_nCurrentTime, m_nLastFrameStartTime,
                 m_nFrameTime, m_nLevelStartTime, m_nLevelFinishTime,
                 m_bLevelTimerOn, m_bStepMode, start, acc, tRet>>

\* CTimer::start
CTimer_start ==
  /\ m_nStartTime' = clock
  /\ tOp' = TimerOp("start", 0)
  /\ UNCHANGED <<soundVars, spriteVars, levelVars, renderVars, mainVars>>
  /\ UNCHANGED <<clock, m_nCurrentTime, m_nLastFrameStartTime, m_nFrameTime,
                 m_nLevelStartTime, m_nLevelFinishTime, m_bLevelTimerOn,
                 m_bStepMode, start, acc, tRet>>

\* CTimer::elapsed(start, interval), mutated: the start is moved on by one
\* interval instead of being reset to the current time.
elapsed_AddInterval(interval) ==
  /\ IF m_nCurrentTime >= start + interval
       THEN /\ start' = start + interval
            /\ tRet' = TRUE
            /\ acc' = 0
       ELSE /\ tRet' = FALSE
            /\ UNCHANGED <<start, acc>>
  /\ tOp' = TimerOp("elapsed", interval)
  /\ UNCHANGED <<soundVars, spriteVars, levelVars, renderVars, mainVars>>
  /\ UNCHANGED <<clock, m_nStartTime, m_nCurrentTime, m_nLastFrameStartTime,
                 m_nFrameTime, m_nLevelStartTime, m_nLevelFinishTime,
                 m_bLevelTimerOn, m_bStepMode>>

\* CTimer::elapsed(start, interval).  acc restarts when start is reset.
elapsed(interval) ==
  /\ IF m_nCurrentTime >= start + interval
       THEN /\ start' = m_nCurrentTime
            /\ tRet' = TRUE
            /\ acc' = 0
       ELSE /\ tRet' = FALSE
            /\ UNCHANGED <<start, acc>>
  /\ tOp' = TimerOp("elapsed", interval)
  /\ UNCHANGED <<soundVars, spriteVars, levelVars, renderVars, mainVars>>
  /\ UNCHANGED <<clock, m_nStartTime, m_nCurrentTime, m_nLastFrameStartTime,
                 m_nFrameTime, m_nLevelStartTime, m_nLevelFinishTime,
                 m_bLevelTimerOn, m_bStepMode>>

\* CTimer::beginframe, mutated: the frame time is recomputed in step mode too.
beginframe_NoStepCheck ==
  /\ m_nCurrentTime' = clock - m_nStartTime
  /\ m_nFrameTime' = clock - m_nLastFrameStartTime
  /\ m_nLastFrameStartTime' = clock
  /\ acc' = acc + ((clock - m_nStartTime) - m_nCurrentTime)
  /\ tOp' = TimerOp("beginframe", 0)
  /\ UNCHANGED <<soundVars, spriteVars, levelVars, renderVars, mainVars>>
  /\ UNCHANGED <<clock, m_nStartTime, m_nLevelStartTime, m_nLevelFinishTime,
                 m_bLevelTimerOn, m_bStepMode, start, tRet>>

\* CTimer::beginframe, mutated: in step mode the start of the last frame is
\* frozen together with the frame time.
beginframe_FreezeLastStart ==
  /\ m_nCurrentTime' = clock - m_nStartTime
  /\ IF ~m_bStepMode
       THEN /\ m_nFrameTime' = clock - m_nLastFrameStartTime
            /\ m_nLastFrameStartTime' = clock
       ELSE UNCHANGED <<m_nFrameTime, m_nLastFrameStartTime>>
  /\ acc' = acc + ((clock - m_nStartTime) - m_nCurrentTime)
  /\ tOp' = TimerOp("beginframe", 0)
  /\ UNCHANGED <<soundVars, spriteVars, levelVars, renderVars, mainVars>>
  /\ UNCHANGED <<clock, m_nStartTime, m_nLevelStartTime, m_nLevelFinishTime,
                 m_bLevelTimerOn, m_bStepMode, start, tRet>>
\* CTimer::beginframe.  acc grows by the change of the current frame time.
beginframe ==
  /\ m_nCurrentTime' = clock - m_nStartTime
  /\ m_nFrameTime' = IF ~m_bStepMode THEN clock - m_nLastFrameStartTime
                                     ELSE m_nFrameTime
  /\ m_nLastFrameStartTime' = clock
  /\ acc' = acc + ((clock - m_nStartTime) - m_nCurrentTime)
  /\ tOp' = TimerOp("beginframe", 0)
  /\ UNCHANGED <<soundVars, spriteVars, levelVars, renderVars, mainVars>>
  /\ UNCHANGED <<clock, m_nStartTime, m_nLevelStartTime, m_nLevelFinishTime,
                 m_bLevelTimerOn, m_bStepMode, start, tRet>>

\* CTimer::endframe, mutated: the frame time survives the end of a frame in
\* step mode.
endframe_KeepInStepMode ==
  /\ m_nFrameTime' = IF m_bStepMode THEN m_nFrameTime ELSE 0
  /\ tOp' = TimerOp("endframe", 0)
  /\ UNCHANGED <<soundVars, spriteVars, levelVars, renderVars, mainVars>>
  /\ UNCHANGED <<clock, m_nStartTime, m_nCurrentTime, m_nLastFrameStartTime,
                 m_nLevelStartTime, m_nLevelFinishTime, m_bLevelTimerOn,
                 m_bStepMode, start, acc, tRet>>

\* CTimer::endframe
endframe ==
  /\ m_nFrameTime' = 0
  /\ tOp' = TimerOp("endframe", 0)
  /\ UNCHANGED <<soundVars, spriteVars, levelVars, renderVars, mainVars>>
  /\ UNCHANGED <<clock, m_nStartTime, m_nCurrentTime, m_nLastFrameStartTime,
                 m_nLevelStartTime, m_nLevelFinishTime, m_bLevelTimerOn,
                 m_bStepMode, start, acc, tRet>>

\* CTimer::IncrementFrame, mutated: the step also moves the current time on.
IncrementFrame_AdvanceTime ==
  /\ m_nFrameTime' = IF m_bStepMode THEN StepFrameTime ELSE m_nFrameTime
  /\ m_nCurrentTime' = IF m_bStepMode THEN m_nCurrentTime + StepFrameTime
                                      ELSE m_nCurrentTime
  /\ tOp' = TimerOp("IncrementFrame", 0)
  /\ UNCHANGED <<soundVars, spriteVars, levelVars, renderVars, mainVars>>
  /\ UNCHANGED <<clock, m_nStartTime, m_nLastFrameStartTime,
                 m_nLevelStartTime, m_nLevelFinishTime, m_bLevelTimerOn,
                 m_bStepMode, start, acc, tRet>>

\* CTimer::IncrementFrame
IncrementFrame ==
  /\ m_nFrameTime' = IF m_bStepMode THEN StepFrameTime ELSE m_nFrameTime
  /\ tOp' = TimerOp("IncrementFrame", 0)
  /\ UNCHANGED <<soundVars, spriteVars, levelVars, renderVars, mainVars>>
  /\ UNCHANGED <<clock, m_nStartTime, m_nCurrentTime, m_nLastFrameStartTime,
                 m_nLevelStartTime, m_nLevelFinishTime, m_bLevelTimerOn,
                 m_bStepMode, start, acc, tRet>>

\* CTimer::ToggleStepMode
ToggleStepMode ==
  /\ m_bStepMode' = ~m_bStepMode
  /\ tOp' = TimerOp("ToggleStepMode", 0)
  /\ UNCHANGED <<soundVars, spriteVars, levelVars, renderVars, mainVars>>
  /\ UNCHANGED <<clock, m_nStartTime, m_nCurrentTime, m_nLastFrameStartTime,
                 m_nFrameTime, m_nLevelStartTime, m_nLevelFinishTime,
                 m_bLevelTimerOn, start, acc, tRet>>

\* CTimer::GetLevelElapsedTime, mutated: the running time is read from the
\* frame clock beginframe() keeps instead of timeGetTime().
GetLevelElapsedTime_FrameClock ==
  /\ lRet' = IF m_bLevelTimerOn
               THEN (m_nStartTime + m_nCurrentTime) - m_nLevelStartTime
               ELSE m_nLevelFinishTime - m_nLevelStartTime
  /\ tOp' = TimerOp("GetLevelElapsedTime", 0)
  /\ UNCHANGED <<clock, m_nStartTime, m_nCurrentTime, m_nLastFrameStartTime,
                 m_nFrameTime, m_nLevelStartTime, m_nLevelFinishTime,
                 m_bLevelTimerOn, m_bStepMode, start, acc, tRet, lT0, lT1>>
  /\ UNCHANGED <<soundVars, spriteVars, renderVars, mainVars>>

\* CTimer::GetLevelElapsedTime
GetLevelElapsedTime ==
  /\ lRet' = IF m_bLevelTimerOn
               THEN clock - m_nLevelStartTime
               ELSE m_nLevelFinishTime - m_nLevelStartTime
  /\ tOp' = TimerOp("GetLevelElapsedTime", 0)
  /\ UNCHANGED <<clock, m_nStartTime, m_nCurrentTime, m_nLastFrameStartTime,
                 m_nFrameTime, m_nLevelStartTime, m_nLevelFinishTime,
                 m_bLevelTimerOn, m_bStepMode, start, acc, tRet, lT0, lT1>>
  /\ UNCHANGED <<soundVars, spriteVars, renderVars, mainVars>>

\* CTimer::StartLevelTimer, mutated: the level start is stored relative to
\* the time start() recorded.
StartLevelTimer_SinceStart ==
  /\ m_bLevelTimerOn' = TRUE
  /\ m_nLevelStartTime' = clock - m_nStartTime
  /\ lT0' = clock
  /\ lT1' = -1
  /\ tOp' = TimerOp("StartLevelTimer", 0)
  /\ UNCHANGED <<clock, m_nStartTime, m_nCurrentTime, m_nLastFrameStartTime,
                 m_nFrameTime, m_nLevelFinishTime, m_bStepMode, start, acc,
                 tRet, lRet>>
  /\ UNCHANGED <<soundVars, spriteVars, renderVars, mainVars>>

\* CTimer::StartLevelTimer
StartLevelTimer ==
  /\ m_bLevelTimerOn' = TRUE
  /\ m_nLevelStartTime' = clock
  /\ lT0' = clock
  /\ lT1' = -1
  /\ tOp' = TimerOp("StartLevelTimer", 0)
  /\ UNCHANGED <<clock, m_nStartTime, m_nCurrentTime, m_nLastFrameStartTime,
                 m_nFrameTime, m_nLevelFinishTime, m_bStepMode, start, acc,
                 tRet, lRet>>
  /\ UNCHANGED <<soundVars, spriteVars, renderVars, mainVars>>

\* CTimer::StopLevelTimer
StopLevelTimer ==
  /\ m_bLevelTimerOn' = FALSE
  /\ m_nLevelFinishTime' = clock
  /\ lT1' = clock
  /\ tOp' = TimerOp("StopLevelTimer", 0)
  /\ UNCHANGED <<clock, m_nStartTime, m_nCurrentTime, m_nLastFrameStartTime,
                 m_nFrameTime, m_nLevelStartTime, m_bStepMode, start, acc,
                 tRet, lRet, lT0>>
  /\ UNCHANGED <<soundVars, spriteVars, renderVars, mainVars>>

(***************************************************************************)
(* CSoundManager                                                           *)
(***************************************************************************)

\* The settings file lists at most MaxSounds sounds, each with an
\* "instances" attribute of at most MaxInst (0: the attribute is missing),
\* and at most MaxTotal instances in all.
MaxSounds == 2
MaxInst == 2
MaxTotal == 3

\* The value handed to move(), pitch() or volume(); no branch depends on it.
Values == {"v"}

\* What an uninitialised int may hold, by its place relative to 0..max-1:
\* below the range, in it (when the range is not empty), above it.
Garbage(max) == {-2, 0, max}

EmptyArray == [i \in {} |-> 0]
SoundOp(n, index, instance) == [name |-> n, index |-> index, instance |-> instance]
Call(fn, s, i, a) == [fn |-> fn, sound |-> s, instance |-> i, arg |-> a]
NoRun == [index |-> -1, k |-> 0]

\* CSoundManager::CSoundManager.  Only m_nCount is initialised.  The manager
\* is created with new, so m_nLastPlayedSound and m_nLastPlayedInstance hold
\* whatever the heap held: any value, here one below, in or above the valid
\* range.  The arrays m_pInstance and m_nInstanceCount are not allocated yet.
CSoundManager_ctor ==
  /\ m_nCount = 0
  /\ m_nInstanceCount = EmptyArray
  /\ instState = EmptyArray
  /\ m_nLastPlayedSound \in Garbage(MaxSounds)
  /\ m_nLastPlayedInstance \in Garbage(MaxInst)
  /\ sFault = "none"
  /\ sOp = SoundOp("ctor", -1, -1)
  /\ sRet = -1
  /\ sCalls = <<>>
  /\ sTouched = FALSE
  /\ sPrev = "other"
  /\ run = NoRun

\* The sound manager in a specification where it is never called.
SoundAtRest ==
  /\ CSoundManager_ctor
  /\ m_nLastPlayedSound = -2
  /\ m_nLastPlayedInstance = -2

\* The process is in a defined state: no call has gone through a wild pointer.
SoundAlive == sFault # "wild_access"

\* Whether the last call was a play() or loop() that started an instance.
Started ==
  /\ sOp.name \in {"play", "loop"}
  /\ sOp.index \in DOMAIN m_nInstanceCount
  /\ sRet >= 0
  /\ sRet < m_nInstanceCount[sOp.index]

\* The history variables of a call other than play().
History(op) ==
  /\ sOp' = op
  /\ sPrev' = IF Started THEN "started" ELSE "other"
  /\ run' = NoRun

\* The settings' <sounds> list: the "instances" attribute of each <sound>.
InstancesOf(attr) == IF attr = 0 THEN 1 ELSE attr
RECURSIVE TotalFrom(_, _)
TotalFrom(snd, i) ==
  IF i \in DOMAIN snd THEN InstancesOf(snd[i]) + TotalFrom(snd, i + 1) ELSE 0
SoundLists ==
  {snd \in UNION {[0..(k - 1) -> 0..MaxInst] : k \in 0..MaxSounds} :
     TotalFrom(snd, 0) <= MaxTotal}

\* What Load() may find: no settings at all, or a <sounds> list.
SoundSettings ==
  {[null |-> TRUE, sounds |-> EmptyArray]}
    \cup {[null |-> FALSE, sounds |-> l] : l \in SoundLists}

\* CSoundManager::Load() with CSoundManager::Load(filename) and
\* createInstances.  settings.null stands for g_xmlSettings == nullptr.  A new instance is not playing.  Load() is modelled while
\* no sound effect has been loaded (DefaultWinMain calls it once).
CSoundManager_Load(settings) ==
  /\ SoundAlive
  /\ m_nCount = 0
  /\ IF settings.null
       THEN UNCHANGED <<m_nCount, m_nInstanceCount, instState>>
       ELSE LET snd == settings.sounds
                n(i) == InstancesOf(snd[i])
            IN /\ m_nCount' = Cardinality(DOMAIN snd)
               /\ m_nInstanceCount' = [i \in DOMAIN snd |-> n(i)]
               /\ instState' = [i \in DOMAIN snd |->
                                  [j \in 0..(n(i) - 1) |-> "STOPPED"]]
  /\ sFault' = "none"
  /\ sRet' = -1
  /\ sCalls' = <<>>
  /\ sTouched' = ~settings.null
  /\ History(SoundOp("Load", -1, -1))
  /\ UNCHANGED <<m_nLastPlayedSound, m_nLastPlayedInstance>>
  /\ UNCHANGED <<timerVars, spriteVars, levelVars, renderVars, mainVars>>

\* m_pInstance[index][instance]->GetState(); past the end of the array the
\* read yields no sound state.
GetState(index, instance) ==
  IF instance \in DOMAIN instState[index]
    THEN instState[index][instance]
    ELSE "GARBAGE"

\* The loop of getNextInstance: [instance, reads], the value returned and the
\* set of instance indices whose state was read.
RECURSIVE Scan(_, _, _, _)
Scan(index, instance, soundState, reads) ==
  IF instance < m_nInstanceCount[index] /\ soundState = "PLAYING"
    THEN IF instance + 1 < m_nInstanceCount[index]
           THEN Scan(index, instance + 1, GetState(index, instance + 1),
                     reads \cup {instance + 1})
           ELSE Scan(index, instance + 1, soundState, reads)
    ELSE [instance |-> instance, reads |-> reads]

\* The loop of getNextInstance, mutated: the next state is read without
\* checking ++instance against the instance count.
RECURSIVE Scan_Unchecked(_, _, _, _)
Scan_Unchecked(index, instance, soundState, reads) ==
  IF instance < m_nInstanceCount[index] /\ soundState = "PLAYING"
    THEN Scan_Unchecked(index, instance + 1, GetState(index, instance + 1),
                        reads \cup {instance + 1})
    ELSE [instance |-> instance, reads |-> reads]

getNextInstance_Unchecked(index) ==
  Scan_Unchecked(index, 0, GetState(index, 0), {0})

\* getNextInstance, mutated: the scan starts at the second instance.
getNextInstance_FromOne(index) ==
  IF m_nInstanceCount[index] > 1
    THEN Scan(index, 1, GetState(index, 1), {1})
    ELSE Scan(index, 0, GetState(index, 0), {0})

\* CSoundManager::getNextInstance
getNextInstance(index) == Scan(index, 0, GetState(index, 0), {0})

\* The effect of play()/loop() once the index is known to be valid.
StartNext(index, looped) ==
  LET instance == getNextInstance(index).instance
  IN /\ IF instance < m_nInstanceCount[index]
          THEN /\ instState' = [instState EXCEPT ![index][instance] = "PLAYING"]
               /\ sCalls' = <<Call("Play", index, instance, looped)>>
          ELSE /\ UNCHANGED instState
               /\ sCalls' = <<>>
     /\ m_nLastPlayedSound' = index
     /\ m_nLastPlayedInstance' = instance
     /\ sRet' = instance
     /\ sTouched' = TRUE

\* A rejected play()/loop(): return -1.
Bail ==
  /\ sRet' = -1
  /\ sCalls' = <<>>
  /\ sTouched' = FALSE
  /\ UNCHANGED <<instState, m_nLastPlayedSound, m_nLastPlayedInstance>>

AllIdle(index) ==
  \A j \in DOMAIN instState[index] : instState[index][j] # "PLAYING"

\* The history of successive play(index) calls; k stops counting at MaxInst + 2.
RunAfterPlay(index) ==
  IF index < 0 \/ index >= m_nCount THEN NoRun
  ELSE IF run.k > 0 /\ run.index = index
    THEN [index |-> index,
          k |-> IF run.k < MaxInst + 2 THEN run.k + 1 ELSE run.k]
  ELSE IF AllIdle(index) THEN [index |-> index, k |-> 1]
  ELSE NoRun

PlayHistory(index) ==
  /\ sOp' = SoundOp("play", index, -1)
  /\ sPrev' = IF Started THEN "started" ELSE "other"
  /\ run' = RunAfterPlay(index)
  /\ sFault' = "none"
  /\ UNCHANGED <<m_nCount, m_nInstanceCount>>
  /\ UNCHANGED <<timerVars, spriteVars, levelVars, renderVars, mainVars>>

\* CSoundManager::play, mutated: when every instance is playing, the first
\* one is started again.
play_Steal(index) ==
  /\ SoundAlive
  /\ IF index < 0 \/ index >= m_nCount
       THEN Bail
       ELSE LET found == getNextInstance(index).instance
                instance == IF found < m_nInstanceCount[index] THEN found ELSE 0
            IN /\ instState' = [instState EXCEPT ![index][instance] = "PLAYING"]
               /\ sCalls' = <<Call("Play", index, instance, "once")>>
               /\ m_nLastPlayedSound' = index
               /\ m_nLastPlayedInstance' = instance
               /\ sRet' = instance
               /\ sTouched' = TRUE
  /\ PlayHistory(index)

\* CSoundManager::play, mutated: only a negative index is rejected.
play_NoUpperCheck(index) ==
  /\ SoundAlive
  /\ IF index < 0
       THEN /\ Bail
            /\ PlayHistory(index)
       ELSE IF index \in DOMAIN m_nInstanceCount
         THEN /\ StartNext(index, "once")
              /\ PlayHistory(index)
         ELSE /\ Bail
              /\ sOp' = SoundOp("play", index, -1)
              /\ sPrev' = IF Started THEN "started" ELSE "other"
              /\ run' = NoRun
              /\ sFault' = "oob_read"
              /\ UNCHANGED <<m_nCount, m_nInstanceCount>>
              /\ UNCHANGED <<timerVars, spriteVars, levelVars, renderVars, mainVars>>

\* CSoundManager::play, mutated: the last-played pair is not recorded.
play_NotRecorded(index) ==
  /\ SoundAlive
  /\ IF index < 0 \/ index >= m_nCount
       THEN Bail
       ELSE LET instance == getNextInstance(index).instance
            IN /\ IF instance < m_nInstanceCount[index]
                    THEN /\ instState' = [instState EXCEPT
                                            ![index][instance] = "PLAYING"]
                         /\ sCalls' = <<Call("Play", index, instance, "once")>>
                    ELSE /\ UNCHANGED instState
                         /\ sCalls' = <<>>
               /\ UNCHANGED <<m_nLastPlayedSound, m_nLastPlayedInstance>>
               /\ sRet' = instance
               /\ sTouched' = TRUE
  /\ PlayHistory(index)

\* CSoundManager::play, mutated: a request dropped because every instance
\* is playing leaves the last-played pair as it was.
play_KeepOnDrop(index) ==
  /\ SoundAlive
  /\ IF index < 0 \/ index >= m_nCount
       THEN Bail
       ELSE LET instance == getNextInstance(index).instance
            IN IF instance < m_nInstanceCount[index]
                 THEN StartNext(index, "once")
                 ELSE /\ UNCHANGED <<instState, m_nLastPlayedSound,
                                     m_nLastPlayedInstance>>
                      /\ sCalls' = <<>>
                      /\ sRet' = instance
                      /\ sTouched' = TRUE
  /\ PlayHistory(index)
\* CSoundManager::play
play(index) ==
  /\ SoundAlive
  /\ IF index < 0 \/ index >= m_nCount
       THEN Bail
       ELSE StartNext(index, "once")
  /\ PlayHistory(index)

\* CSoundManager::loop
loop(index) ==
  /\ SoundAlive
  /\ IF index < 0 \/ index >= m_nCount
       THEN Bail
       ELSE StartNext(index, "looped")
  /\ sFault' = "none"
  /\ History(SoundOp("loop", index, -1))
  /\ UNCHANGED <<m_nCount, m_nInstanceCount>>
  /\ UNCHANGED <<timerVars, spriteVars, levelVars, renderVars, mainVars>>

\* The substitution of the defaults at the head of move(), pitch(), volume().
SubIndex(index) == IF index = -1 THEN m_nLastPlayedSound ELSE index
SubInstance(instance) == IF instance = -1 THEN m_nLastPlayedInstance ELSE instance

\* The guarded call at the end of move(), pitch() and volume():
\*   if(instance >= 0 && instance < m_nInstanceCount[index])
\*     m_pInstance[index][instance]->fn(arg);
\* With instance >= 0 the count is read whatever index is.  Outside the
\* allocated array that read is undefined: the value found is either at most
\* instance ("oob_read": nothing more happens) or above it ("wild_access":
\* fn is called through whatever m_pInstance[index][instance] holds).
ApplyToInstance(fn, arg, instance, index) ==
  /\ IF instance >= 0
       THEN IF index \in DOMAIN m_nInstanceCount
              THEN /\ sCalls' = IF instance < m_nInstanceCount[index]
                                  THEN <<Call(fn, index, instance, arg)>>
                                  ELSE <<>>
                   /\ sFault' = "none"
                   /\ sTouched' = TRUE
              ELSE /\ sCalls' = <<>>
                   /\ sFault' \in {"oob_read", "wild_access"}
                   /\ sTouched' = TRUE
       ELSE /\ sCalls' = <<>>
            /\ sFault' = "none"
            /\ sTouched' = FALSE
  /\ sRet' = -1
  /\ UNCHANGED <<m_nCount, m_nInstanceCount, instState,
                 m_nLastPlayedSound, m_nLastPlayedInstance>>
  /\ UNCHANGED <<timerVars, spriteVars, levelVars, renderVars, mainVars>>

\* CSoundManager::move
move(ePos, instance, index) ==
  /\ SoundAlive
  /\ ApplyToInstance("Apply3D", ePos, SubInstance(instance), SubIndex(index))
  /\ History(SoundOp("move", index, instance))

\* CSoundManager::pitch, mutated: when either argument is defaulted both
\* come from the last-played pair.
pitch_PairFromLast(p, instance, index) ==
  /\ SoundAlive
  /\ IF instance = -1 \/ index = -1
       THEN ApplyToInstance("SetPitch", p, m_nLastPlayedInstance,
                            m_nLastPlayedSound)
       ELSE ApplyToInstance("SetPitch", p, instance, index)
  /\ History(SoundOp("pitch", index, instance))

\* CSoundManager::pitch
pitch(p, instance, index) ==
  /\ SoundAlive
  /\ ApplyToInstance("SetPitch", p, SubInstance(instance), SubIndex(index))
  /\ History(SoundOp("pitch", index, instance))

\* CSoundManager::volume
volume(v, instance, index) ==
  /\ SoundAlive
  /\ ApplyToInstance("SetVolume", v, SubInstance(instance), SubIndex(index))
  /\ History(SoundOp("volume", index, instance))

\* The audio engine ends the playback of an instance (the sound has played
\* to its end, or the engine was reset): the GetState() that getNextInstance
\* polls turns from PLAYING to STOPPED.
Finish(index, instance) ==
  /\ SoundAlive
  /\ index \in DOMAIN instState
  /\ instance \in DOMAIN instState[index]
  /\ instState[index][instance] = "PLAYING"
  /\ instState' = [instState EXCEPT ![index][instance] = "STOPPED"]
  /\ sFault' = "none"
  /\ sRet' = -1
  /\ sCalls' = <<>>
  /\ sTouched' = FALSE
  /\ History(SoundOp("Finish", index, instance))
  /\ UNCHANGED <<m_nCount, m_nInstanceCount, m_nLastPlayedSound,
                 m_nLastPlayedInstance>>
  /\ UNCHANGED <<timerVars, spriteVars, levelVars, renderVars, mainVars>>

SoundStep ==
  \/ \E settings \in SoundSettings : CSoundManager_Load(settings)
  \/ \E index \in -1..MaxSounds : play(index)
  \/ \E index \in -1..MaxSounds : loop(index)
  \/ \E ePos \in Values, instance \in -1..MaxInst, index \in -1..MaxSounds :
       move(ePos, instance, index)
  \/ \E p \in Values, instance \in -1..MaxInst, index \in -1..MaxSounds :
       pitch(p, instance, index)
  \/ \E v \in Values, instance \in -1..MaxInst, index \in -1..MaxSounds :
       volume(v, instance, index)
  \/ \E index \in 0..(MaxSounds - 1), instance \in 0..(MaxInst - 1) :
       Finish(index, instance)

(***************************************************************************)
(* CSpriteManager and C3DSprite                                            *)
(***************************************************************************)

\* The size of CSpriteManager::m_pSprite.
NUM_SPRITES == 512
\* The slots 0..MaxSlots-1 of m_pSprite are modelled, and at most MaxObjects
\* sprite objects are constructed.
MaxSlots == 2
MaxObjects == 3

Slots == {i \in 0..(MaxSlots - 1) : i < NUM_SPRITES}
\* The sprite names asked for: one the settings list, one they do not.
SpriteNames == {"known", "unknown"}

SpriteOp(n, sprite) == [name |-> n, sprite |-> sprite]
DCall(fn, arg) == [fn |-> fn, arg |-> arg]

\* CSpriteManager::CSpriteManager, with the settings as main.cpp left them.
CSpriteManager_ctor ==
  /\ g_xmlSettings \in {"null", "nosprites", "sprites"}
  /\ m_pSprite = [i \in Slots |-> 0]
  /\ sprites = <<>>
  /\ resources = <<>>
  /\ dcTexture = 0
  /\ dcVertexBuffer = 0
  /\ proc = "running"
  /\ dOp = SpriteOp("ctor", 0)
  /\ dCalls = <<>>

\* The sprite manager in a specification where it is never called.
SpriteAtRest ==
  /\ CSpriteManager_ctor
  /\ g_xmlSettings = "sprites"

\* C3DSprite::C3DSprite followed by C3DSprite::Load on the new object, for
\* the sprite stored in slot `sprite` by LoadFile.  texOk: the image file is
\* read into a texture; otherwise CreateWICTextureFromFile fails, its result
\* is ignored, m_pTexture stays nullptr and LoadTexture calls GetResource
\* through it: undefined behaviour, which either faults ("crashed") or goes
\* on with an indeterminate width and height.  vbOk: CreateBuffer succeeds.
\* proc' tells what becomes of Load's result in CSpriteManager::Load:
\* "running" (TRUE) or "aborted" (FALSE, then ABORT).
C3DSprite_Load(texOk, vbOk) ==
  LET tex == IF texOk THEN <<"live">> ELSE <<>>
      t == IF texOk THEN Len(resources) + 1 ELSE 0
      r == Len(resources) + Len(tex)
  IN \/ /\ ~texOk
        /\ sprites' = Append(sprites, [m_pTexture |-> 0,
                                       m_pVertexBuffer |-> 0,
                                       deleted |-> 0])
        /\ resources' = resources
        /\ proc' = "crashed"
     \/ /\ vbOk
        /\ sprites' = Append(sprites, [m_pTexture |-> t,
                                       m_pVertexBuffer |-> r + 1,
                                       deleted |-> 0])
        /\ resources' = resources \o tex \o <<"live">>
        /\ proc' = "running"
     \/ /\ ~vbOk
        /\ sprites' = Append(sprites, [m_pTexture |-> t,
                                       m_pVertexBuffer |-> 0,
                                       deleted |-> 0])
        /\ resources' = resources \o tex
        /\ proc' = "aborted"

\* CSpriteManager::LoadFile
LoadFile(sprite, texOk, vbOk) ==
  /\ m_pSprite' = [m_pSprite EXCEPT ![sprite] = Len(sprites) + 1]
  /\ C3DSprite_Load(texOk, vbOk)

\* CSpriteManager::Load(sprite, name): ABORT unless the named sprite is found
\* in the settings and loaded.
CSpriteManager_Load(sprite, name, texOk, vbOk) ==
  /\ proc = "running"
  /\ Len(sprites) < MaxObjects
  /\ IF g_xmlSettings = "sprites" /\ name = "known"
       THEN LoadFile(sprite, texOk, vbOk)
       ELSE /\ proc' = "aborted"
            /\ UNCHANGED <<m_pSprite, sprites, resources>>
  /\ dCalls' = <<>>
  /\ dOp' = SpriteOp("Load", sprite)
  /\ UNCHANGED <<g_xmlSettings, dcTexture, dcVertexBuffer>>
  /\ UNCHANGED <<timerVars, soundVars, levelVars, renderVars, mainVars>>

\* C3DSprite::Draw on object o
C3DSprite_Draw(o) ==
  /\ dcTexture' = sprites[o].m_pTexture
  /\ dcVertexBuffer' = sprites[o].m_pVertexBuffer
  /\ dCalls' = <<DCall("PSSetShaderResources", sprites[o].m_pTexture),
                 DCall("IASetVertexBuffers", sprites[o].m_pVertexBuffer),
                 DCall("Draw", 4)>>
  /\ proc' = proc

\* CSpriteManager::Draw, mutated: the slot is not tested, and Draw() is
\* called through the nullptr of an empty slot.
CSpriteManager_Draw_NoNullCheck(sprite) ==
  /\ proc = "running"
  /\ IF m_pSprite[sprite] # 0
       THEN C3DSprite_Draw(m_pSprite[sprite])
       ELSE /\ dCalls' = <<>>
            /\ proc' = "crashed"
            /\ UNCHANGED <<dcTexture, dcVertexBuffer>>
  /\ dOp' = SpriteOp("Draw", sprite)
  /\ UNCHANGED <<g_xmlSettings, m_pSprite, sprites, resources>>
  /\ UNCHANGED <<timerVars, soundVars, levelVars, renderVars, mainVars>>

\* CSpriteManager::Draw
CSpriteManager_Draw(sprite) ==
  /\ proc = "running"
  /\ IF m_pSprite[sprite] # 0
       THEN C3DSprite_Draw(m_pSprite[sprite])
       ELSE /\ dCalls' = <<>>
            /\ UNCHANGED <<dcTexture, dcVertexBuffer, proc>>
  /\ dOp' = SpriteOp("Draw", sprite)
  /\ UNCHANGED <<g_xmlSettings, m_pSprite, sprites, resources>>
  /\ UNCHANGED <<timerVars, soundVars, levelVars, renderVars, mainVars>>

\* The sprite objects the slots point to.
Held == {m_pSprite[i] : i \in Slots} \ {0}

\* C3DSprite::Release on every object in Held: SAFE_RELEASE of the vertex
\* buffer and of the texture.
C3DSprite_Release ==
  /\ sprites' = [o \in DOMAIN sprites |->
                   IF o \in Held
                     THEN [sprites[o] EXCEPT !.m_pTexture = 0,
                                             !.m_pVertexBuffer = 0]
                     ELSE sprites[o]]
  /\ resources' = [r \in DOMAIN resources |->
                     IF \E o \in Held : r \in {sprites[o].m_pTexture,
                                               sprites[o].m_pVertexBuffer}
                       THEN "released"
                       ELSE resources[r]]

\* CSpriteManager::Release
CSpriteManager_Release ==
  /\ proc = "running"
  /\ C3DSprite_Release
  /\ dCalls' = <<>>
  /\ dOp' = SpriteOp("Release", 0)
  /\ UNCHANGED <<g_xmlSettings, m_pSprite, dcTexture, dcVertexBuffer, proc>>
  /\ UNCHANGED <<timerVars, soundVars, levelVars, renderVars, mainVars>>

\* CSpriteManager::~CSpriteManager: SAFE_DELETE of every slot.  ~C3DSprite
\* frees the vertex data only, so what the sprite still points to stays
\* unreleased.  `deleted` counts the destructions of an object.  The manager
\* goes with its owner at the end of the run; nothing is called afterwards.
CSpriteManager_dtor ==
  /\ proc = "running"
  /\ sprites' = [o \in DOMAIN sprites |->
                   IF o \in Held
                     THEN [sprites[o] EXCEPT !.deleted = @ + 1]
                     ELSE sprites[o]]
  /\ m_pSprite' = [i \in Slots |-> 0]
  /\ proc' = "exited"
  /\ dCalls' = <<>>
  /\ dOp' = SpriteOp("~CSpriteManager", 0)
  /\ UNCHANGED <<g_xmlSettings, resources, dcTexture, dcVertexBuffer>>
  /\ UNCHANGED <<timerVars, soundVars, levelVars, renderVars, mainVars>>

SpriteStep ==
  \/ \E sprite \in Slots, name \in SpriteNames, texOk \in BOOLEAN,
        vbOk \in BOOLEAN : CSpriteManager_Load(sprite, name, texOk, vbOk)
  \/ \E sprite \in Slots : CSpriteManager_Draw(sprite)
  \/ CSpriteManager_Release
  \/ CSpriteManager_dtor

(***************************************************************************)
(* CRenderer and CShader                                                   *)
(***************************************************************************)

\* The frame size InitScreenText gives the screen text's sprite sheet.
TextFrameWidth == 21
TextFrameHeight == 37
\* The z at which drawtext() draws.
TextZ == -1000

\* The window sizes the settings may ask for, and the sizes of the image
\* the sprite sheet may be loaded from.
ScreenSizes == {[w |-> 40, h |-> 30], [w |-> 1024, h |-> 768]}
SheetSizes == {[w |-> 573, h |-> 133], [w |-> 24, h |-> 40]}

\* A float that is a quotient of two integers, kept exact.
Frac(n, d) == [num |-> n, den |-> d]
FracEq(a, b) == a.num * b.den = b.num * a.den
FracSub(a, b) == Frac(a.num * b.den - b.num * a.den, a.den * b.den)

\* A Vector3.  x, y and z are in half pixels, so that the halves drawtext()
\* produces are exact.  wrap counts the multiples of 2^N pixels (N the width
\* of size_t) that unsigned arithmetic added to x before it was halved.
Vector3(x, y, z, wrap) == [x |-> x, y |-> y, z |-> z, wrap |-> wrap]

\* Angles are quarter turns, so that sine and cosine are integers.
Cos(k) == CASE k % 4 = 0 -> 1 [] k % 4 = 2 -> -1 [] OTHER -> 0
Sin(k) == CASE k % 4 = 1 -> 1 [] k % 4 = 3 -> -1 [] OTHER -> 0

\* CRenderer::SetWorldMatrix: scaling, then rotation about Z, then
\* translation.  The value is the matrix's entries that depend on the
\* arguments.
SetWorldMatrix(v, angle, xsize, ysize) ==
  [m11 |-> xsize * Cos(angle), m12 |-> xsize * Sin(angle),
   m21 |-> (0 - ysize) * Sin(angle), m22 |-> ysize * Cos(angle),
   m41 |-> v.x, m42 |-> v.y, m43 |-> v.z, wrap |-> v.wrap]

\* XMMatrixIdentity
Identity == SetWorldMatrix(Vector3(0, 0, 0, 0), 0, 1, 1)

\* CRenderer::CalculateWorldViewProjectionMatrix for world matrix `world`:
\* the product with the view and projection matrices, which Initialize
\* built from the screen size and nothing changes afterwards.
CalculateWorldViewProjectionMatrix(world) ==
  [world |-> world, w |-> m_nScreenWidth, h |-> m_nScreenHeight]

\* The ConstantBuffer structure.
ConstantBuffer(wvp, u0, u1, v0, v1) ==
  [wvp |-> wvp, u0 |-> u0, u1 |-> u1, v0 |-> v0, v1 |-> v1]

RenderOp(n, sprite, s, angle, xsize, ysize, text) ==
  [name |-> n, sprite |-> sprite, s |-> s, angle |-> angle,
   xsize |-> xsize, ysize |-> ysize, text |-> text]
PlainOp(n) == RenderOp(n, 0, Vector3(0, 0, 0, 0), 0, 1, 1, <<>>)

\* ABORT(...): the process ends with the diagnostic.
ABORT == "aborted"

\* An element of m_pIEDesc that new[] left uninitialised, and one that
\* AddInputElementDesc filled in.
Unfilled == [set |-> FALSE, offset |-> 0, fmt |-> "", name |-> ""]
InputElement(offset, fmt, name) ==
  [set |-> TRUE, offset |-> offset, fmt |-> fmt, name |-> name]

\* m_pShader == nullptr.  Besides the members of CShader the record keeps, as
\* history, whether the object exists (made), what the last
\* AddInputElementDesc returned (addRet) and the number of elements handed
\* to CreateInputLayout (layoutCount, -1 while it has not been called).
NoShader ==
  [built |-> FALSE, m_pVertexShader |-> 0, m_pPixelShader |-> 0,
   m_pInputLayout |-> 0, made |-> FALSE, m_nMaxDescs |-> 0,
   m_nNumDescs |-> 0, m_pIEDesc |-> EmptyArray, addRet |-> FALSE,
   layoutCount |-> -1]

\* A CShader is made with room for at most MaxDescs descriptors.
MaxDescs == 3

\* CShader::CShader(n)
CShader_ctor(n) ==
  [NoShader EXCEPT !.made = TRUE, !.m_nMaxDescs = n,
                   !.m_pIEDesc = [i \in 0..(n - 1) |-> Unfilled]]

\* CShader::AddInputElementDesc; the value returned is addRet.
CShader_AddInputElementDesc(shader, offset, fmt, name) ==
  IF shader.m_nNumDescs < shader.m_nMaxDescs
    THEN [shader EXCEPT
            !.m_pIEDesc[shader.m_nNumDescs] = InputElement(offset, fmt, name),
            !.m_nNumDescs = @ + 1,
            !.addRet = TRUE]
    ELSE [shader EXCEPT !.addRet = FALSE]

\* The NumElements argument of the CreateInputLayout call in
\* CShader::VSCreateAndCompile.
CreateInputLayout_NumElements(shader) == shader.m_nMaxDescs
\* Besides the members of CSpriteSheet the record keeps the size of the quad
\* in m_pVertexBufferData and, as history, the number of Load calls and of
\* vertex buffers created, the result of the last Load, the Direct3D
\* objects the sheet created that are not released (live), and those that
\* were not released when the sheet was deleted (leaked).
NoSheet ==
  [created |-> FALSE, loaded |-> FALSE, m_nWidth |-> 0, m_nHeight |-> 0,
   m_nFrameWidth |-> 0, m_nFrameHeight |-> 0, m_pTexture |-> 0,
   m_pVertexBuffer |-> 0, quadW |-> 0, quadH |-> 0, loads |-> 0,
   quads |-> 0, ret |-> FALSE, live |-> {}, leaked |-> {}]

\* CRenderer::CRenderer and CRenderer::Initialize, which copies the screen
\* size the settings gave.  No shader and no screen text exist yet.
CRenderer_ctor ==
  /\ \E size \in ScreenSizes :
       /\ m_nScreenWidth = size.w
       /\ m_nScreenHeight = size.h
  /\ m_pShader = NoShader
  /\ m_pScreenText = NoSheet
  /\ m_pBackground = [m_pBackgroundVB |-> 0, m_pBackgroundTexture |-> 0]
  /\ m_matWorld = Identity
  /\ cb = ConstantBuffer(CalculateWorldViewProjectionMatrix(Identity),
                         Frac(0, 1), Frac(0, 1), Frac(0, 1), Frac(0, 1))
  /\ rOp = PlainOp("ctor")
  /\ rPrev = "none"
  /\ glyphs = <<>>

\* The renderer in a specification where it is never called.
RenderAtRest ==
  /\ CRenderer_ctor
  /\ m_nScreenWidth = 1024

\* g_nScreenHeight, which Initialize copied into m_nScreenHeight.
g_nScreenHeight == m_nScreenHeight

\* The history variables of a renderer call.
RenderHistory(op) ==
  /\ rOp' = op
  /\ rPrev' = rOp.name

\* The Direct3D objects the renderer itself owns, told apart from the
\* sprites' (which are numbered from 1) by negative numbers.
RendererHandles ==
  [backgroundVB |-> -1, backgroundTexture |-> -2, textTexture |-> -3,
   textVB |-> -4]

\* How building a shader may go: it succeeds or not, and the compiler
\* leaves error messages or not.
BuildResults == [ok : BOOLEAN, msgs : BOOLEAN]

\* CShader::VSCreateAndCompile.  A failure of D3DCompileFromFile or of
\* CreateVertexShader calls ABORT only when there are error messages and
\* returns false otherwise.  m_pInputLayout, which the constructor leaves
\* alone, is set on success only: -1 stands for its indeterminate value.
VSCreateAndCompile(r) ==
  IF r.ok THEN [ret |-> "true", shader |-> 1, layout |-> 1]
  ELSE IF r.msgs THEN [ret |-> ABORT, shader |-> 0, layout |-> -1]
  ELSE [ret |-> "false", shader |-> 0, layout |-> -1]

\* CShader::PSCreateAndCompile
PSCreateAndCompile(r) ==
  IF r.ok THEN [ret |-> "true", shader |-> 1]
  ELSE IF r.msgs THEN [ret |-> ABORT, shader |-> 0]
  ELSE [ret |-> "false", shader |-> 0]

\* CRenderer::InitBackground: a new CShader, its two shaders built with the
\* results ignored, then the constant buffer and the background's vertex
\* buffer.
InitBackground(vs, ps) ==
  /\ proc = "running"
  /\ ~m_pShader.built
  /\ LET v == VSCreateAndCompile(vs)
         p == PSCreateAndCompile(ps)
         done == v.ret # ABORT /\ p.ret # ABORT
         made == CShader_AddInputElementDesc(
                   CShader_AddInputElementDesc(
                     CShader_ctor(2), 0, "R32G32B32_FLOAT", "POSITION"),
                   12, "R32G32_FLOAT", "TEXCOORD")
     IN /\ m_pShader' = [made EXCEPT
                           !.built = done,
                           !.m_pVertexShader = v.shader,
                           !.m_pPixelShader = IF v.ret = ABORT THEN 0
                                              ELSE p.shader,
                           !.m_pInputLayout = v.layout,
                           !.layoutCount =
                              IF vs.ok
                                THEN CreateInputLayout_NumElements(made)
                                ELSE -1]
        /\ proc' = IF done THEN "running" ELSE ABORT
        /\ m_pBackground' =
             IF done
               THEN [m_pBackground EXCEPT
                       !.m_pBackgroundVB = RendererHandles.backgroundVB]
               ELSE m_pBackground
  /\ dCalls' = <<>>
  /\ dOp' = SpriteOp("CRenderer", 0)
  /\ glyphs' = <<>>
  /\ RenderHistory(PlainOp("InitBackground"))
  /\ UNCHANGED <<g_xmlSettings, m_pSprite, sprites, resources, dcTexture,
                 dcVertexBuffer>>
  /\ UNCHANGED <<m_nScreenWidth, m_nScreenHeight, m_pScreenText, m_matWorld,
                 cb>>
  /\ UNCHANGED <<timerVars, soundVars, levelVars, mainVars>>

\* The input elements a caller describes: the two of InitBackground.
InputElements ==
  {InputElement(0, "R32G32B32_FLOAT", "POSITION"),
   InputElement(12, "R32G32_FLOAT", "TEXCOORD")}

\* The parts of a renderer call on the shader that are not the shader's.
ShaderCall(name) ==
  /\ dCalls' = <<>>
  /\ dOp' = SpriteOp("CRenderer", 0)
  /\ glyphs' = <<>>
  /\ RenderHistory(PlainOp(name))
  /\ UNCHANGED <<g_xmlSettings, m_pSprite, sprites, resources, dcTexture,
                 dcVertexBuffer>>
  /\ UNCHANGED <<m_nScreenWidth, m_nScreenHeight, m_pScreenText,
                 m_pBackground, m_matWorld, cb>>
  /\ UNCHANGED <<timerVars, soundVars, levelVars, mainVars>>

\* m_pShader = new CShader(n)
NewShader(n) ==
  /\ proc = "running"
  /\ ~m_pShader.made
  /\ m_pShader' = CShader_ctor(n)
  /\ UNCHANGED proc
  /\ ShaderCall("CShader")

\* m_pShader->AddInputElementDesc(offset, fmt, name), before the input
\* layout is created.
AddInputElementDesc(offset, fmt, name) ==
  /\ proc = "running"
  /\ m_pShader.made
  /\ m_pShader.layoutCount = -1
  /\ m_pShader' = CShader_AddInputElementDesc(m_pShader, offset, fmt, name)
  /\ UNCHANGED proc
  /\ ShaderCall("AddInputElementDesc")

\* m_pShader->VSCreateAndCompile(...): once the vertex shader is created,
\* CreateInputLayout is called and its result ignored.
BuildVertexShader(r) ==
  /\ proc = "running"
  /\ m_pShader.made
  /\ m_pShader.m_pVertexShader = 0
  /\ LET v == VSCreateAndCompile(r)
     IN /\ m_pShader' = [m_pShader EXCEPT
                           !.m_pVertexShader = v.shader,
                           !.m_pInputLayout = v.layout,
                           !.layoutCount =
                              IF r.ok
                                THEN CreateInputLayout_NumElements(m_pShader)
                                ELSE -1]
        /\ proc' = IF v.ret = ABORT THEN ABORT ELSE proc
  /\ ShaderCall("VSCreateAndCompile")

\* What the settings hold for an image: no <images> tag, no <image> of the
\* name asked for, or one.
ImageTags == {"noimages", "noimage", "image"}

\* CRenderer::LoadTexture into a pointer that holds nullptr when the file
\* cannot be read: GetResource is called through it, which is undefined;
\* the process faults or goes on.
LoadTextureFailed == {"crashed", "running"}

\* CRenderer::LoadBackground.  With no <image name="background"> it loads
\* from a file named by an error message, which cannot be read.
LoadBackground(tag, texOk) ==
  /\ proc = "running"
  /\ m_pShader.built
  /\ m_pBackground.m_pBackgroundTexture = 0
  /\ IF tag = "noimages"
       THEN UNCHANGED <<m_pBackground, proc>>
       ELSE IF tag = "image" /\ texOk
         THEN /\ m_pBackground' =
                   [m_pBackground EXCEPT
                      !.m_pBackgroundTexture =
                         RendererHandles.backgroundTexture]
              /\ proc' = proc
         ELSE /\ proc' \in LoadTextureFailed
              /\ UNCHANGED m_pBackground
  /\ dCalls' = <<>>
  /\ dOp' = SpriteOp("CRenderer", 0)
  /\ glyphs' = <<>>
  /\ RenderHistory(PlainOp("LoadBackground"))
  /\ UNCHANGED <<g_xmlSettings, m_pSprite, sprites, resources, dcTexture,
                 dcVertexBuffer>>
  /\ UNCHANGED <<m_nScreenWidth, m_nScreenHeight, m_pShader, m_pScreenText,
                 m_matWorld, cb>>
  /\ UNCHANGED <<timerVars, soundVars, levelVars, mainVars>>

\* At most MaxLoads calls of Load are made on one sprite sheet.
MaxLoads == 3

\* The texture made by the k-th Load of the sheet and the j-th vertex buffer
\* it creates.
SheetTexture(k) == RendererHandles.textTexture - 2 * (k - 1)
SheetVB(j) == RendererHandles.textVB - 2 * (j - 1)

\* CSpriteSheet::Load, mutated: the quad is made anew on every load.
CSpriteSheet_Load_AlwaysCreate(sheet, texOk, vbOk, size) ==
  LET vb == IF vbOk THEN SheetVB(sheet.quads + 1) ELSE 0
      tex == IF texOk THEN SheetTexture(sheet.loads + 1) ELSE 0
  IN [sheet EXCEPT !.loaded = texOk,
                   !.m_nWidth = size.w,
                   !.m_nHeight = size.h,
                   !.m_pTexture = tex,
                   !.m_pVertexBuffer = vb,
                   !.quadW = sheet.m_nFrameWidth,
                   !.quadH = sheet.m_nFrameHeight,
                   !.loads = @ + 1,
                   !.quads = IF vbOk THEN @ + 1 ELSE @,
                   !.ret = vbOk,
                   !.live = (@ \union {tex, vb}) \ {0}]

\* CSpriteSheet::Load on the sheet, once LoadTexture has returned: the
\* texture pointer and the reported size are overwritten (size is what
\* GetDesc left, whatever the file was), and only a sheet without a vertex
\* buffer gets its quad, of the frame's size, and a new buffer.  The result
\* is that of CreateBuffer, or success when no buffer was made.
CSpriteSheet_Load(sheet, texOk, vbOk, size) ==
  LET make == sheet.m_pVertexBuffer = 0
      vb == IF make
              THEN IF vbOk THEN SheetVB(sheet.quads + 1) ELSE 0
              ELSE sheet.m_pVertexBuffer
      tex == IF texOk THEN SheetTexture(sheet.loads + 1) ELSE 0
  IN [sheet EXCEPT !.loaded = texOk,
                   !.m_nWidth = size.w,
                   !.m_nHeight = size.h,
                   !.m_pTexture = tex,
                   !.m_pVertexBuffer = vb,
                   !.quadW = IF make THEN sheet.m_nFrameWidth ELSE @,
                   !.quadH = IF make THEN sheet.m_nFrameHeight ELSE @,
                   !.loads = @ + 1,
                   !.quads = IF make /\ vbOk THEN @ + 1 ELSE @,
                   !.ret = IF make THEN vbOk ELSE TRUE,
                   !.live = (@ \union {tex, vb}) \ {0}]

\* CRenderer::InitScreenText: a new CSpriteSheet of 21 x 37 frames, loaded
\* (CSpriteSheet::Load, its result ignored) from the image the settings name
\* "text", of size `size`.  With <images> but no such image, LoadTexture is
\* called on m_pBackgroundTexture with a message for a file name; with no
\* <images> tag nothing is loaded.  A texture that cannot be read leaves a
\* nullptr that LoadTexture calls GetResource through.
InitScreenText(tag, texOk, vbOk, size) ==
  /\ proc = "running"
  /\ ~m_pScreenText.created
  /\ LET sheet == [m_pScreenText EXCEPT !.created = TRUE,
                                        !.m_nFrameWidth = TextFrameWidth,
                                        !.m_nFrameHeight = TextFrameHeight]
     IN IF tag = "noimages"
          THEN /\ m_pScreenText' = sheet
               /\ UNCHANGED <<m_pBackground, proc>>
          ELSE IF tag = "noimage"
            THEN /\ m_pScreenText' = sheet
                 /\ m_pBackground' =
                      [m_pBackground EXCEPT !.m_pBackgroundTexture = 0]
                 /\ proc' \in LoadTextureFailed
            ELSE /\ m_pScreenText' =
                      CSpriteSheet_Load(sheet, texOk, vbOk, size)
                 /\ proc' \in IF texOk THEN {proc} ELSE LoadTextureFailed
                 /\ UNCHANGED m_pBackground
  /\ dCalls' = <<>>
  /\ dOp' = SpriteOp("CRenderer", 0)
  /\ glyphs' = <<>>
  /\ RenderHistory(PlainOp("InitScreenText"))
  /\ UNCHANGED <<g_xmlSettings, m_pSprite, sprites, resources, dcTexture,
                 dcVertexBuffer>>
  /\ UNCHANGED <<m_nScreenWidth, m_nScreenHeight, m_pShader, m_matWorld, cb>>
  /\ UNCHANGED <<timerVars, soundVars, levelVars, mainVars>>

\* CShader::SetShaders on the device context.
SetShaders ==
  <<DCall("IASetInputLayout", m_pShader.m_pInputLayout),
    DCall("VSSetShader", m_pShader.m_pVertexShader),
    DCall("PSSetShader", m_pShader.m_pPixelShader)>>

\* The calls draw() and DrawCharFromSpriteSheet make before they hand over
\* to the sprite: shaders, topology, blend state, then the constant buffer.
SetUpCalls ==
  SetShaders \o <<DCall("IASetPrimitiveTopology", 0),
                  DCall("OMSetBlendState", 0),
                  DCall("UpdateSubresource", 0),
                  DCall("VSSetConstantBuffers", 0)>>

\* The device-context calls of C3DSprite::Draw on a sprite with the given
\* texture and vertex buffer.
SpriteDrawCalls(texture, vertexBuffer) ==
  <<DCall("PSSetShaderResources", texture),
    DCall("IASetVertexBuffers", vertexBuffer),
    DCall("Draw", 4)>>

\* drawtext()'s table, mutated: lower-case letters take the upper-case row.
CellOf_OneLetterRow(c) ==
  IF c >= 65 /\ c <= 90 THEN [y |-> 48, xoffset |-> c - 65]
  ELSE IF c >= 97 /\ c <= 122 THEN [y |-> 48, xoffset |-> c - 97]
  ELSE IF c >= 48 /\ c <= 57 THEN [y |-> 0, xoffset |-> c - 48]
  ELSE [y |-> 1, xoffset |-> 10]

\* The sheet cell drawtext() selects for the character with code c: the y of
\* its row and the number of frames to skip in it.
CellOf(c) ==
  IF c >= 65 /\ c <= 90 THEN [y |-> 48, xoffset |-> c - 65]
  ELSE IF c >= 97 /\ c <= 122 THEN [y |-> 95, xoffset |-> c - 97]
  ELSE IF c >= 48 /\ c <= 57 THEN [y |-> 0, xoffset |-> c - 48]
  ELSE [y |-> 1, xoffset |-> 10]

\* DrawCharFromSpriteSheet, mutated: the sheet is drawn before the constant
\* buffer is uploaded.
DrawCharFromSpriteSheet_DrawFirst(s, y, xoffset) ==
  LET world == SetWorldMatrix(s, 0, 1, 1)
      w == m_pScreenText.m_nWidth
      h == m_pScreenText.m_nHeight
      fw == m_pScreenText.m_nFrameWidth
      fh == m_pScreenText.m_nFrameHeight
      x == 1 + xoffset * (m_pScreenText.m_nFrameWidth + 1)
  IN [world |-> world,
      cb |-> ConstantBuffer(CalculateWorldViewProjectionMatrix(world),
                            Frac(x, w - 1), Frac(x + fw, w - 1),
                            Frac(y, h - 1), Frac(y + fh, h - 1)),
      calls |-> SpriteDrawCalls(m_pScreenText.m_pTexture,
                                m_pScreenText.m_pVertexBuffer) \o SetUpCalls,
      s |-> [s EXCEPT !.x = @ + 2 * m_pScreenText.m_nFrameWidth]]

\* CRenderer::DrawCharFromSpriteSheet(s, y, xoffset): the world matrix it
\* sets, the constant buffer it uploads, its calls, and s afterwards.
DrawCharFromSpriteSheet(s, y, xoffset) ==
  LET world == SetWorldMatrix(s, 0, 1, 1)
      w == m_pScreenText.m_nWidth
      h == m_pScreenText.m_nHeight
      fw == m_pScreenText.m_nFrameWidth
      fh == m_pScreenText.m_nFrameHeight
      x == 1 + xoffset * (m_pScreenText.m_nFrameWidth + 1)
  IN [world |-> world,
      cb |-> ConstantBuffer(CalculateWorldViewProjectionMatrix(world),
                            Frac(x, w - 1), Frac(x + fw, w - 1),
                            Frac(y, h - 1), Frac(y + fh, h - 1)),
      calls |-> SetUpCalls \o SpriteDrawCalls(m_pScreenText.m_pTexture,
                                              m_pScreenText.m_pVertexBuffer),
      s |-> [s EXCEPT !.x = @ + 2 * m_pScreenText.m_nFrameWidth]]

\* The longest text drawn, and the longest drawn between sprite draws.
MaxLen == 2
MaxShort == 1
\* The characters drawn, by code: A Z z 9, space and [.
Chars == {65, 90, 122, 57, 32, 91}
Texts(n) == UNION {[1..k -> Chars] : k \in 0..n}

\* Where drawtext() starts a text of L characters: the point that centres
\* it.  strlen() is a size_t, so screen width minus text width is computed
\* unsigned and wraps when the text is wider than the screen.
TextStart(L) ==
  LET width == L * m_pScreenText.m_nFrameWidth
  IN Vector3(m_nScreenWidth - width, m_nScreenHeight, 2 * TextZ,
             IF m_nScreenWidth < width THEN 1 ELSE 0)

\* The loop of drawtext() from character i on, the cursor being at s: for
\* each character its cell, where it is drawn and what drawing it does.
RECURSIVE DrawChars(_, _, _)
DrawChars(text, i, s) ==
  IF i > Len(text) THEN <<>>
  ELSE LET cell == CellOf(text[i])
           d == DrawCharFromSpriteSheet(s, cell.y, cell.xoffset)
       IN <<[c |-> text[i], y |-> cell.y, xoffset |-> cell.xoffset,
             s |-> s, draw |-> d]>> \o DrawChars(text, i + 1, d.s)

RECURSIVE CallsOf(_, _)
CallsOf(g, i) ==
  IF i > Len(g) THEN <<>> ELSE g[i].draw.calls \o CallsOf(g, i + 1)

\* CRenderer::drawtext.  It is called once the shader and the screen text
\* are there.
drawtext(text) ==
  /\ proc = "running"
  /\ m_pShader.built
  /\ m_pScreenText.loaded
  /\ \E g \in {DrawChars(text, 1, TextStart(Len(text)))} :
        /\ glyphs' = g
        /\ dCalls' = CallsOf(g, 1)
        /\ IF Len(g) = 0
             THEN UNCHANGED <<m_matWorld, cb, dcTexture, dcVertexBuffer>>
             ELSE /\ m_matWorld' = g[Len(g)].draw.world
                  /\ cb' = g[Len(g)].draw.cb
                  /\ dcTexture' = m_pScreenText.m_pTexture
                  /\ dcVertexBuffer' = m_pScreenText.m_pVertexBuffer
  /\ dOp' = SpriteOp("CRenderer", 0)
  /\ RenderHistory(RenderOp("drawtext", 0, TextStart(Len(text)), 0, 1, 1,
                            text))
  /\ UNCHANGED <<g_xmlSettings, m_pSprite, sprites, resources, proc>>
  /\ UNCHANGED <<m_nScreenWidth, m_nScreenHeight, m_pShader, m_pScreenText,
                 m_pBackground>>
  /\ UNCHANGED <<timerVars, soundVars, levelVars, mainVars>>

\* The poses draw() and drawtop() are called with in the model: one point
\* off the origin (in half pixels), no turn or a quarter turn, scale 1 or 2.
Points == {Vector3(40, 24, 8, 0)}
Angles == {0, 1}
Sizes == {1, 2}

\* CSpriteManager::Draw as the renderer calls it, after the calls in
\* `before`: the sprite draws itself if the slot holds one.
ManagerDraw(sprite, before) ==
  IF m_pSprite[sprite] # 0
    THEN LET o == sprites[m_pSprite[sprite]]
         IN /\ dCalls' = before \o SpriteDrawCalls(o.m_pTexture,
                                                  o.m_pVertexBuffer)
            /\ dcTexture' = o.m_pTexture
            /\ dcVertexBuffer' = o.m_pVertexBuffer
    ELSE /\ dCalls' = before
         /\ UNCHANGED <<dcTexture, dcVertexBuffer>>

\* CRenderer::draw, mutated: the constant buffer keeps the texture
\* rectangle of the upload before and only takes the new matrix.
CRenderer_draw_KeepUV(op, sprite, s, angle, xsize, ysize) ==
  /\ \E world \in {SetWorldMatrix(s, angle, xsize, ysize)} :
       /\ m_matWorld' = world
       /\ cb' = [cb EXCEPT !.wvp = CalculateWorldViewProjectionMatrix(world)]
  /\ ManagerDraw(sprite, SetUpCalls)
  /\ dOp' = SpriteOp("CRenderer", sprite)
  /\ glyphs' = <<>>
  /\ RenderHistory(op)
  /\ UNCHANGED <<g_xmlSettings, m_pSprite, sprites, resources, proc>>
  /\ UNCHANGED <<m_nScreenWidth, m_nScreenHeight, m_pShader, m_pScreenText,
                 m_pBackground>>
  /\ UNCHANGED <<timerVars, soundVars, levelVars, mainVars>>

\* The body of CRenderer::draw, recorded in the history as call `op` and
\* reached once the process runs and the shaders are set up: the
\* world matrix from the pose, the shaders, topology and blend state, the
\* constant buffer with the whole texture, then the sprite.
CRenderer_draw(op, sprite, s, angle, xsize, ysize) ==
  /\ \E world \in {SetWorldMatrix(s, angle, xsize, ysize)} :
       /\ m_matWorld' = world
       /\ cb' = ConstantBuffer(CalculateWorldViewProjectionMatrix(world),
                               Frac(0, 1), Frac(1, 1), Frac(0, 1), Frac(1, 1))
  /\ ManagerDraw(sprite, SetUpCalls)
  /\ dOp' = SpriteOp("CRenderer", sprite)
  /\ glyphs' = <<>>
  /\ RenderHistory(op)
  /\ UNCHANGED <<g_xmlSettings, m_pSprite, sprites, resources, proc>>
  /\ UNCHANGED <<m_nScreenWidth, m_nScreenHeight, m_pShader, m_pScreenText,
                 m_pBackground>>
  /\ UNCHANGED <<timerVars, soundVars, levelVars, mainVars>>

\* CRenderer::draw(sprite, s, angle, xsize, ysize)
draw(sprite, s, angle, xsize, ysize) ==
  /\ proc = "running"
  /\ m_pShader.built
  /\ CRenderer_draw(RenderOp("draw", sprite, s, angle, xsize, ysize, <<>>),
                    sprite, s, angle, xsize, ysize)

\* CRenderer::drawtop(sprite, s, angle, size): y is measured from the top of
\* the screen, and draw() is called with four arguments, so that size is the
\* x scale and the y scale takes draw()'s default of 1.  The history keeps
\* the arguments of drawtop, size in both scales.
drawtop(sprite, s, angle, size) ==
  /\ proc = "running"
  /\ m_pShader.built
  /\ CRenderer_draw(RenderOp("drawtop", sprite, s, angle, size, size, <<>>),
                    sprite, [s EXCEPT !.y = 2 * g_nScreenHeight - @], angle,
                    size, 1)

\* CRenderer::DrawBackground: the world matrix at the origin, the background
\* vertex buffer, the shaders and the background texture, the constant
\* buffer with the whole texture, and the draw call.
DrawBackground ==
  /\ proc = "running"
  /\ m_pShader.built
  /\ \E world \in {SetWorldMatrix(Vector3(0, 0, 0, 0), 0, 1, 1)} :
       /\ m_matWorld' = world
       /\ cb' = ConstantBuffer(CalculateWorldViewProjectionMatrix(world),
                               Frac(0, 1), Frac(1, 1), Frac(0, 1), Frac(1, 1))
  /\ dCalls' = <<DCall("IASetVertexBuffers", m_pBackground.m_pBackgroundVB),
                 DCall("IASetPrimitiveTopology", 0)>>
               \o SetShaders
               \o <<DCall("PSSetShaderResources",
                          m_pBackground.m_pBackgroundTexture),
                    DCall("UpdateSubresource", 0),
                    DCall("VSSetConstantBuffers", 0),
                    DCall("Draw", 4)>>
  /\ dcTexture' = m_pBackground.m_pBackgroundTexture
  /\ dcVertexBuffer' = m_pBackground.m_pBackgroundVB
  /\ dOp' = SpriteOp("CRenderer", 0)
  /\ glyphs' = <<>>
  /\ RenderHistory(PlainOp("DrawBackground"))
  /\ UNCHANGED <<g_xmlSettings, m_pSprite, sprites, resources, proc>>
  /\ UNCHANGED <<m_nScreenWidth, m_nScreenHeight, m_pShader, m_pScreenText,
                 m_pBackground>>
  /\ UNCHANGED <<timerVars, soundVars, levelVars, mainVars>>

\* m_pScreenText->Load(filename), CSpriteSheet::Load called again on the
\* sheet InitScreenText made.  LoadTexture comes first, and with a file that
\* cannot be read it calls GetResource through a nullptr.
ScreenText_Load(texOk, vbOk, size) ==
  /\ proc = "running"
  /\ m_pScreenText.created
  /\ m_pScreenText.loads < MaxLoads
  /\ m_pScreenText' = CSpriteSheet_Load(m_pScreenText, texOk, vbOk, size)
  /\ proc' \in IF texOk THEN {proc} ELSE LoadTextureFailed
  /\ dCalls' = <<>>
  /\ dOp' = SpriteOp("CRenderer", 0)
  /\ glyphs' = <<>>
  /\ RenderHistory(PlainOp("Load"))
  /\ UNCHANGED <<g_xmlSettings, m_pSprite, sprites, resources, dcTexture,
                 dcVertexBuffer>>
  /\ UNCHANGED <<m_nScreenWidth, m_nScreenHeight, m_pShader, m_pBackground,
                 m_matWorld, cb>>
  /\ UNCHANGED <<timerVars, soundVars, levelVars, mainVars>>

\* m_pScreenText->Release(), C3DSprite::Release on the sheet: SAFE_RELEASE
\* of the vertex buffer and of the texture the sheet points to now.
ScreenText_Release ==
  /\ proc = "running"
  /\ m_pScreenText.created
  /\ m_pScreenText' =
       [m_pScreenText EXCEPT
          !.loaded = FALSE,
          !.live = @ \ {m_pScreenText.m_pTexture,
                        m_pScreenText.m_pVertexBuffer},
          !.m_pTexture = 0,
          !.m_pVertexBuffer = 0]
  /\ dCalls' = <<>>
  /\ dOp' = SpriteOp("CRenderer", 0)
  /\ glyphs' = <<>>
  /\ RenderHistory(PlainOp("Release"))
  /\ UNCHANGED <<g_xmlSettings, m_pSprite, sprites, resources, dcTexture,
                 dcVertexBuffer, proc>>
  /\ UNCHANGED <<m_nScreenWidth, m_nScreenHeight, m_pShader, m_pBackground,
                 m_matWorld, cb>>
  /\ UNCHANGED <<timerVars, soundVars, levelVars, mainVars>>

\* CRenderer::Release: the sprite manager releases its sprites' textures
\* and vertex buffers, the screen text is deleted (~C3DSprite frees the
\* vertex data and releases nothing), and the background's texture and
\* vertex buffer are released.
CRenderer_Release ==
  /\ proc = "running"
  /\ C3DSprite_Release
  /\ m_pScreenText' =
       [NoSheet EXCEPT !.leaked = m_pScreenText.leaked
                                    \union m_pScreenText.live]
  /\ m_pBackground' = [m_pBackgroundVB |-> 0, m_pBackgroundTexture |-> 0]
  /\ dCalls' = <<>>
  /\ dOp' = SpriteOp("CRenderer", 0)
  /\ glyphs' = <<>>
  /\ RenderHistory(PlainOp("CRenderer::Release"))
  /\ UNCHANGED <<g_xmlSettings, m_pSprite, dcTexture, dcVertexBuffer, proc>>
  /\ UNCHANGED <<m_nScreenWidth, m_nScreenHeight, m_pShader, m_matWorld, cb>>
  /\ UNCHANGED <<timerVars, soundVars, levelVars, mainVars>>

(***************************************************************************)
(* The message loop of DefaultWinMain                                      *)
(***************************************************************************)

\* At most MaxQueue messages wait in the queue, and frames counts up to
\* MaxFrames.
MaxQueue == 2
MaxFrames == 2

Msg(message, wParam) == [message |-> message, wParam |-> wParam]
\* The messages the system places in the queue: the application gains or
\* loses the foreground, a key goes down, the window is asked to close, and
\* one of all the messages DefaultWindowProc has no case for.
Messages ==
  {Msg("WM_ACTIVATEAPP", 0), Msg("WM_ACTIVATEAPP", 1), Msg("WM_KEYDOWN", 27),
   Msg("WM_CLOSE", 0), Msg("WM_PAINT", 0)}

MainOp(n, msg) == [name |-> n, msg |-> msg]
NoMsg == Msg("", 0)
\* The steps that are iterations of the message loop.
LoopSteps == {"DispatchMessage", "return", "ProcessFrame", "WaitMessage"}

\* DefaultWinMain up to the message loop: the window exists, the queue is
\* empty and the loop is about to start.  g_bActiveApp is a global, FALSE
\* until a WM_ACTIVATEAPP sent while the window was created and shown set it.
DefaultWinMain_start ==
  /\ msgQueue = <<>>
  /\ quitPosted = FALSE
  /\ hwnd = TRUE
  /\ g_bActiveApp \in BOOLEAN
  /\ loopPc = "loop"
  /\ frames = 0
  /\ ended = 0
  /\ mOp = MainOp("WinMain", NoMsg)
  /\ mCalls = <<>>

\* The message loop in a specification where it does not run.
MainAtRest ==
  /\ DefaultWinMain_start
  /\ g_bActiveApp = FALSE

\* case WM_DESTROY of DefaultWindowProc.
OnDestroy == <<"EndGame", "PostQuitMessage">>
\* DestroyWindow(hwnd) sends WM_DESTROY to the window procedure before it
\* returns.
DestroyWindow == <<"DestroyWindow">> \o OnDestroy

\* DefaultWindowProc, which the game's WindowProc passes every message to:
\* [active, calls], the new g_bActiveApp and the calls made.  quit is what
\* the game's KeyboardHandler returns.  DefWindowProc answers WM_CLOSE by
\* destroying the window.
DefaultWindowProc(active, msg, quit) ==
  IF msg.message = "WM_ACTIVATEAPP"
    THEN [active |-> msg.wParam # 0, calls |-> <<>>]
  ELSE IF msg.message = "WM_KEYDOWN"
    THEN [active |-> active,
          calls |-> <<"KeyboardHandler">>
                      \o (IF quit THEN DestroyWindow ELSE <<>>)]
  ELSE IF msg.message = "WM_DESTROY"
    THEN [active |-> active, calls |-> OnDestroy]
  ELSE [active |-> active,
        calls |-> <<"DefWindowProc">>
                    \o (IF msg.message = "WM_CLOSE" THEN DestroyWindow
                                                    ELSE <<>>)]

Count(calls, fn) == Cardinality({i \in DOMAIN calls : calls[i] = fn})

\* The system places a message in the queue of the window's thread.
PostMessage(msg) ==
  /\ loopPc # "returned"
  /\ hwnd
  /\ Len(msgQueue) < MaxQueue
  /\ msgQueue' = Append(msgQueue, msg)
  /\ mOp' = MainOp("PostMessage", msg)
  /\ mCalls' = <<>>
  /\ UNCHANGED <<quitPosted, hwnd, g_bActiveApp, loopPc, frames, ended>>
  /\ UNCHANGED <<timerVars, soundVars, spriteVars, levelVars, renderVars>>

\* An iteration of the loop with a message waiting: PeekMessage finds it,
\* GetMessage removes it and DispatchMessage runs the window procedure.
\* WaitMessage, if the loop was in it, has returned.  A destroyed window's
\* messages leave the queue with it.
MainLoop_Dispatch(quit) ==
  /\ loopPc \in {"loop", "waiting"}
  /\ msgQueue # <<>>
  /\ LET msg == Head(msgQueue)
         r == DefaultWindowProc(g_bActiveApp, msg, quit)
         destroyed == Count(r.calls, "DestroyWindow") > 0
     IN /\ g_bActiveApp' = r.active
        /\ mCalls' = <<"PeekMessage", "GetMessage", "TranslateMessage",
                       "DispatchMessage">> \o r.calls
        /\ msgQueue' = IF destroyed THEN <<>> ELSE Tail(msgQueue)
        /\ hwnd' = (hwnd /\ ~destroyed)
        /\ quitPosted' = (quitPosted \/ Count(r.calls, "PostQuitMessage") > 0)
        /\ ended' = ended + Count(r.calls, "EndGame")
        /\ mOp' = MainOp("DispatchMessage", msg)
  /\ loopPc' = "loop"
  /\ UNCHANGED frames
  /\ UNCHANGED <<timerVars, soundVars, spriteVars, levelVars, renderVars>>

\* An iteration with only the quit message left: GetMessage returns 0 and
\* DefaultWinMain returns.
MainLoop_Return ==
  /\ loopPc = "loop"
  /\ msgQueue = <<>>
  /\ quitPosted
  /\ loopPc' = "returned"
  /\ mOp' = MainOp("return", Msg("WM_QUIT", 0))
  /\ mCalls' = <<"PeekMessage", "GetMessage">>
  /\ UNCHANGED <<msgQueue, quitPosted, hwnd, g_bActiveApp, frames, ended>>
  /\ UNCHANGED <<timerVars, soundVars, spriteVars, levelVars, renderVars>>

\* The loop, mutated: the frame is processed whenever the application is
\* active, before the queue is looked at.
MainLoop_ProcessFrame_First ==
  /\ loopPc = "loop"
  /\ g_bActiveApp
  /\ frames' = IF frames < MaxFrames THEN frames + 1 ELSE frames
  /\ mOp' = MainOp("ProcessFrame", NoMsg)
  /\ mCalls' = <<"ProcessFrame">>
  /\ UNCHANGED <<msgQueue, quitPosted, hwnd, g_bActiveApp, loopPc, ended>>
  /\ UNCHANGED <<timerVars, soundVars, spriteVars, levelVars, renderVars>>

\* An iteration with nothing waiting while the application is active:
\* PeekMessage returns FALSE and ProcessFrame() runs.
MainLoop_ProcessFrame ==
  /\ loopPc = "loop"
  /\ msgQueue = <<>>
  /\ ~quitPosted
  /\ g_bActiveApp
  /\ frames' = IF frames < MaxFrames THEN frames + 1 ELSE frames
  /\ mOp' = MainOp("ProcessFrame", NoMsg)
  /\ mCalls' = <<"PeekMessage", "ProcessFrame">>
  /\ UNCHANGED <<msgQueue, quitPosted, hwnd, g_bActiveApp, loopPc, ended>>
  /\ UNCHANGED <<timerVars, soundVars, spriteVars, levelVars, renderVars>>

\* An iteration with nothing waiting while the application is not active:
\* WaitMessage() is entered and returns when a message arrives.
MainLoop_WaitMessage ==
  /\ loopPc = "loop"
  /\ msgQueue = <<>>
  /\ ~quitPosted
  /\ ~g_bActiveApp
  /\ loopPc' = "waiting"
  /\ mOp' = MainOp("WaitMessage", NoMsg)
  /\ mCalls' = <<"PeekMessage", "WaitMessage">>
  /\ UNCHANGED <<msgQueue, quitPosted, hwnd, g_bActiveApp, frames, ended>>
  /\ UNCHANGED <<timerVars, soundVars, spriteVars, levelVars, renderVars>>

MainStep ==
  \/ \E msg \in Messages : PostMessage(msg)
  \/ \E quit \in BOOLEAN : MainLoop_Dispatch(quit)
  \/ MainLoop_Return
  \/ MainLoop_ProcessFrame
  \/ MainLoop_WaitMessage

(***************************************************************************)
(* Specifications                                                          *)
(***************************************************************************)

TimerStep ==
  \/ Tick
  \/ CTimer_start
  \/ beginframe
  \/ endframe
  \/ IncrementFrame
  \/ ToggleStepMode
  \/ \E interval \in 0..MaxInterval : elapsed(interval)

InitTimer == CTimer_ctor /\ SoundAtRest /\ SpriteAtRest /\ RenderAtRest /\ MainAtRest
NextTimer == TimerStep
SpecTimer == InitTimer /\ [][NextTimer]_vars

\* The level timer with the frame clock running beside it.
LevelStep ==
  \/ Tick
  \/ beginframe
  \/ endframe
  \/ ToggleStepMode
  \/ StartLevelTimer
  \/ StopLevelTimer
  \/ GetLevelElapsedTime

InitLevel == CTimer_ctor /\ SoundAtRest /\ SpriteAtRest /\ RenderAtRest /\ MainAtRest
NextLevel == LevelStep
SpecLevel == InitLevel /\ [][NextLevel]_vars

\* The timer's clock readings: start(), frames and the level timer.
EpochStep ==
  \/ Tick
  \/ CTimer_start
  \/ beginframe
  \/ StartLevelTimer
  \/ StopLevelTimer

InitEpoch == CTimer_ctor /\ SoundAtRest /\ SpriteAtRest /\ RenderAtRest /\ MainAtRest
NextEpoch == EpochStep
SpecEpoch == InitEpoch /\ [][NextEpoch]_vars

\* A CShader of any size, the descriptors added to it, and its input layout.
DescStep ==
  \/ \E n \in 0..MaxDescs : NewShader(n)
  \/ \E e \in InputElements : AddInputElementDesc(e.offset, e.fmt, e.name)
  \/ \E r \in BuildResults : BuildVertexShader(r)

InitDesc == CTimer_ctor /\ SoundAtRest /\ SpriteAtRest /\ RenderAtRest /\ MainAtRest
NextDesc == DescStep
SpecDesc == InitDesc /\ [][NextDesc]_vars

\* A shader that builds.
Built == [ok |-> TRUE, msgs |-> FALSE]

\* The screen text, with shaders that build.
TextStep ==
  \/ InitBackground(Built, Built)
  \/ \E tag \in ImageTags, texOk \in BOOLEAN, vbOk \in BOOLEAN,
        size \in SheetSizes : InitScreenText(tag, texOk, vbOk, size)
  \/ \E text \in Texts(MaxLen) : drawtext(text)

InitText ==
  /\ CTimer_ctor /\ clock = 0 /\ SoundAtRest /\ CRenderer_ctor
  /\ CSpriteManager_ctor /\ g_xmlSettings = "sprites" /\ MainAtRest
NextText == TextStep
SpecText == InitText /\ [][NextText]_vars

\* Building the shaders, with every outcome, and drawing with what was
\* built.
ShaderStep ==
  \/ \E vs \in BuildResults, ps \in BuildResults : InitBackground(vs, ps)
  \/ \E tag \in ImageTags, texOk \in BOOLEAN : LoadBackground(tag, texOk)
  \/ CSpriteManager_Load(0, "known", TRUE, TRUE)
  \/ DrawBackground
  \/ \E sprite \in Slots, s \in Points, angle \in Angles :
        draw(sprite, s, angle, 1, 1)

InitShader ==
  /\ CTimer_ctor /\ clock = 0 /\ SoundAtRest /\ RenderAtRest
  /\ CSpriteManager_ctor /\ g_xmlSettings = "sprites" /\ MainAtRest
NextShader == ShaderStep
SpecShader == InitShader /\ [][NextShader]_vars

\* The renderer through a game whose shaders build: the images and sprite 0
\* are loaded, and frames are drawn with the loaded and the empty slots.
RenderStep ==
  \/ InitBackground(Built, Built)
  \/ LoadBackground("image", TRUE)
  \/ \E size \in SheetSizes : InitScreenText("image", TRUE, TRUE, size)
  \/ CSpriteManager_Load(0, "known", TRUE, TRUE)
  \/ \E sprite \in Slots, s \in Points, angle \in Angles, xsize \in Sizes,
        ysize \in Sizes : draw(sprite, s, angle, xsize, ysize)
  \/ \E sprite \in Slots, s \in Points, angle \in Angles, size \in Sizes :
        drawtop(sprite, s, angle, size)
  \/ DrawBackground
  \/ \E text \in Texts(MaxShort) \ {<<>>} : drawtext(text)

InitRender ==
  /\ CTimer_ctor /\ clock = 0 /\ SoundAtRest /\ RenderAtRest
  /\ CSpriteManager_ctor /\ g_xmlSettings = "sprites" /\ MainAtRest
NextRender == RenderStep
SpecRender == InitRender /\ [][NextRender]_vars

\* The screen text's sprite sheet: made, loaded again, released and deleted.
SheetStep ==
  \/ \E tag \in ImageTags, texOk \in BOOLEAN, vbOk \in BOOLEAN,
        size \in SheetSizes : InitScreenText(tag, texOk, vbOk, size)
  \/ \E texOk \in BOOLEAN, vbOk \in BOOLEAN, size \in SheetSizes :
        ScreenText_Load(texOk, vbOk, size)
  \/ ScreenText_Release
  \/ CRenderer_Release

InitSheet ==
  /\ CTimer_ctor /\ clock = 0 /\ SoundAtRest /\ RenderAtRest
  /\ CSpriteManager_ctor /\ g_xmlSettings = "sprites" /\ MainAtRest
NextSheet == SheetStep
SpecSheet == InitSheet /\ [][NextSheet]_vars

\* The message loop alone.
InitMain ==
  /\ CTimer_ctor /\ clock = 0 /\ SoundAtRest /\ SpriteAtRest /\ RenderAtRest
  /\ DefaultWinMain_start
NextMain == MainStep
SpecMain == InitMain /\ [][NextMain]_vars

InitSound ==
  CTimer_ctor /\ clock = 0 /\ CSoundManager_ctor /\ SpriteAtRest /\ RenderAtRest /\ MainAtRest
NextSound == SoundStep
SpecSound == InitSound /\ [][NextSound]_vars

InitSprite ==
  CTimer_ctor /\ clock = 0 /\ SoundAtRest /\ CSpriteManager_ctor /\ RenderAtRest /\ MainAtRest
NextSprite == SpriteStep
SpecSprite == InitSprite /\ [][NextSprite]_vars

\* The three classes side by side.
Init ==
  /\ CTimer_ctor /\ CSoundManager_ctor /\ CSpriteManager_ctor
  /\ CRenderer_ctor /\ MainAtRest
Next == TimerStep \/ LevelStep \/ SoundStep \/ SpriteStep
Spec == Init /\ [][Next]_vars

(***************************************************************************)
(* Claims about CTimer, checked under SpecTimer                            *)
(***************************************************************************)

\* C1: elapsed(start, interval) returns TRUE exactly when the frame time
\* accumulated since start was last reset has reached interval (acc is
\* summed up by beginframe() and restarts at each TRUE return, so there is
\* one TRUE return per time it is reached); on a TRUE return start becomes
\* the current frame time, on a FALSE return start is left as it was.
C1_ElapsedOncePerInterval ==
  [][tOp'.name = "elapsed" =>
       /\ tRet' = (acc >= tOp'.interval)
       /\ tRet' => start' = m_nCurrentTime
       /\ ~tRet' => start' = start]_vars

\* elapsed() has returned TRUE for an interval > 0 at a frame time beyond the
\* first interval, and start is that frame time.
C1_Witness ==
  /\ tOp.name = "elapsed"
  /\ tRet
  /\ tOp.interval > 0
  /\ start = m_nCurrentTime
  /\ start > tOp.interval

\* C2 as stated: while step mode is on, beginframe() never changes the frame
\* time, the frame time changes only in IncrementFrame(), and each
\* IncrementFrame() adds exactly 34 to it.
C2_Original ==
  [][m_bStepMode =>
       /\ tOp'.name = "beginframe" => m_nFrameTime' = m_nFrameTime
       /\ m_nFrameTime' # m_nFrameTime => tOp'.name = "IncrementFrame"
       /\ tOp'.name = "IncrementFrame" =>
            m_nFrameTime' = m_nFrameTime + StepFrameTime]_vars

\* C2 amended: while step mode is on, beginframe() never changes the frame
\* time; the frame time changes only in IncrementFrame(), which sets it to
\* exactly 34, and in endframe(), which sets it to 0.
C2_StepModeFrameTime ==
  [][m_bStepMode =>
       /\ tOp'.name = "beginframe" => m_nFrameTime' = m_nFrameTime
       /\ m_nFrameTime' # m_nFrameTime =>
            tOp'.name \in {"IncrementFrame", "endframe"}
       /\ tOp'.name = "IncrementFrame" => m_nFrameTime' = StepFrameTime
       /\ tOp'.name = "endframe" => m_nFrameTime' = 0]_vars

\* In step mode, after an IncrementFrame(), a beginframe() has sampled a
\* clock that had moved on since the frame before, and the frame time is
\* still 34.
C2_Witness ==
  /\ m_bStepMode
  /\ tOp.name = "beginframe"
  /\ m_nFrameTime = StepFrameTime
  /\ m_nLastFrameStartTime = clock
  /\ m_nCurrentTime >= 2

(***************************************************************************)
(* Claims about CSoundManager, checked under SpecSound                     *)
(***************************************************************************)

ValidIndex(index) == index \in 0..(m_nCount - 1)
AllPlaying(index) ==
  \A j \in DOMAIN instState[index] : instState[index][j] = "PLAYING"
\* The lowest instance of sound index that is not playing, or the number of
\* instances when all are.
LowestIdle(index) ==
  LET idle == {j \in DOMAIN instState[index] : instState[index][j] # "PLAYING"}
  IN IF idle = {} THEN m_nInstanceCount[index]
     ELSE CHOOSE j \in idle : \A k \in idle : j <= k
Setters == {"move", "pitch", "volume"}
FnOf(name) ==
  CASE name = "move" -> "Apply3D"
    [] name = "pitch" -> "SetPitch"
    [] name = "volume" -> "SetVolume"
\* The last-played pair names an instance that exists.
LastInRange ==
  /\ ValidIndex(m_nLastPlayedSound)
  /\ m_nLastPlayedInstance \in 0..(m_nInstanceCount[m_nLastPlayedSound] - 1)

\* C3: for every loaded sound (each has n >= 1 instances) and whatever its
\* instances' states are, getNextInstance returns the lowest instance that
\* is not PLAYING, or n when all n are PLAYING, and reads the state of no
\* instance outside 0..n-1.
C3_GetNextInstance ==
  \A index \in 0..(m_nCount - 1) :
    /\ m_nInstanceCount[index] >= 1
    /\ getNextInstance(index).instance = LowestIdle(index)
    /\ getNextInstance(index).reads \subseteq 0..(m_nInstanceCount[index] - 1)

\* play() has just started instance 0 of a sound whose instance 1 is still
\* playing: the scan stopped at the lowest idle instance.
C3_Witness ==
  /\ sOp.name = "play"
  /\ ValidIndex(sOp.index)
  /\ sRet = 0
  /\ m_nInstanceCount[sOp.index] >= 2
  /\ instState[sOp.index][1] = "PLAYING"

\* C4: a play(index) or loop(index) with a valid index all of whose n
\* instances are playing starts nothing, leaves every instance of every
\* sound as it was, returns n and runs into no fault.
C4_BusyPlayDropped ==
  [][(/\ sOp'.name \in {"play", "loop"}
      /\ ValidIndex(sOp'.index)
      /\ AllPlaying(sOp'.index))
       => /\ instState' = instState
          /\ sCalls' = <<>>
          /\ sRet' = m_nInstanceCount[sOp'.index]
          /\ sFault' = "none"]_vars

\* With two sounds loaded, a loop() of a sound whose instances all play has
\* returned the instance count.
C4_Witness ==
  /\ sOp.name = "loop"
  /\ m_nCount = 2
  /\ ValidIndex(sOp.index)
  /\ AllPlaying(sOp.index)
  /\ sRet = m_nInstanceCount[sOp.index]
  /\ sCalls = <<>>

\* C5: the k-th of k successive play(index) calls, the first made with all n
\* instances of index idle and no playback ending in between, starts
\* instance k-1 when k <= n and is dropped (returns n, starts nothing) when
\* k > n; after it exactly the instances below k are playing.
C5_SuccessivePlays ==
  run.k > 0 =>
    LET index == run.index
        n == m_nInstanceCount[index]
        k == run.k
    IN /\ sOp = SoundOp("play", index, -1)
       /\ sRet = IF k <= n THEN k - 1 ELSE n
       /\ sCalls = IF k <= n THEN <<Call("Play", index, k - 1, "once")>>
                             ELSE <<>>
       /\ \A j \in 0..(n - 1) : (instState[index][j] = "PLAYING") <=> (j < k)

\* One sound with 2 instances, 3 play(0) calls in a row: the third is dropped.
C5_Witness ==
  /\ m_nCount = 1
  /\ m_nInstanceCount[0] = 2
  /\ run = [index |-> 0, k |-> 3]
  /\ sRet = 2
  /\ sCalls = <<>>
  /\ AllPlaying(0)

\* C6: play(index) and loop(index) with index < 0 or index >= m_nCount
\* return -1, start nothing, do not touch the instance arrays and leave the
\* last-played pair (and everything else) as it was.
C6_BadIndexRejected ==
  [][(/\ sOp'.name \in {"play", "loop"}
      /\ (sOp'.index < 0 \/ sOp'.index >= m_nCount))
       => /\ sRet' = -1
          /\ sCalls' = <<>>
          /\ ~sTouched'
          /\ sFault' = "none"
          /\ UNCHANGED <<instState, m_nLastPlayedSound, m_nLastPlayedInstance,
                         m_nCount, m_nInstanceCount>>]_vars

\* Right after a play()/loop() that started an instance, a loop() with an
\* index past the last sound has returned -1.
C6_Witness ==
  /\ sOp.name = "loop"
  /\ m_nCount >= 1
  /\ sOp.index >= m_nCount
  /\ sRet = -1
  /\ sPrev = "started"
  /\ LastInRange

\* C7: after a play(index) or loop(index) that started instance i the
\* last-played pair is (index, i), and a move/pitch/volume call that follows
\* with instance and index both defaulted makes exactly one call, on
\* instance i of sound index, and changes no instance's state.
C7_DefaultsTargetLastStarted ==
  /\ [](Started => /\ m_nLastPlayedSound = sOp.index
                   /\ m_nLastPlayedInstance = sRet)
  /\ [][(/\ Started
         /\ sOp'.name \in Setters
         /\ sOp'.instance = -1
         /\ sOp'.index = -1)
          => /\ \E v \in Values :
                  sCalls' = <<Call(FnOf(sOp'.name), sOp.index, sRet, v)>>
             /\ instState' = instState
             /\ sFault' = "none"]_vars

\* Right after a play()/loop() that started instance 1 of the second sound,
\* volume() with both defaults has called SetVolume on that instance.
C7_Witness ==
  /\ sPrev = "started"
  /\ sOp = SoundOp("volume", -1, -1)
  /\ m_nLastPlayedSound = 1
  /\ m_nLastPlayedInstance = 1
  /\ \E v \in Values : sCalls = <<Call("SetVolume", 1, 1, v)>>

\* C8 as stated: a move/pitch/volume call whose target, after the defaults
\* are substituted, has a sound index outside 0..m_nCount-1 or an instance
\* outside 0..m_nInstanceCount[index]-1 calls no instance, changes no
\* instance and reads no array out of bounds.
C8_Original ==
  [][sOp'.name \in Setters =>
       LET index == SubIndex(sOp'.index)
           instance == SubInstance(sOp'.instance)
       IN (\/ ~ValidIndex(index)
           \/ instance \notin 0..(m_nInstanceCount[index] - 1))
            => /\ sCalls' = <<>>
               /\ instState' = instState
               /\ sFault' = "none"]_vars

\* C9 as stated: when instance or index is defaulted, the call goes to the
\* last-played pair (both components), here with that pair in range.
C9_Original ==
  [][(/\ sOp'.name \in Setters
      /\ (sOp'.instance = -1 \/ sOp'.index = -1)
      /\ LastInRange)
       => \E v \in Values :
            sCalls' = <<Call(FnOf(sOp'.name), m_nLastPlayedSound,
                             m_nLastPlayedInstance, v)>>]_vars

\* C9 amended: each defaulted argument is replaced on its own by its
\* component of the last-played pair and an explicit argument is kept; the
\* call goes to that one instance if it exists, no other instance is
\* called and no instance's state changes.
C9_DefaultsSubstitutedSeparately ==
  [][sOp'.name \in Setters =>
       LET index == SubIndex(sOp'.index)
           instance == SubInstance(sOp'.instance)
           hit == \E v \in Values :
                    sCalls' = <<Call(FnOf(sOp'.name), index, instance, v)>>
       IN /\ instState' = instState
          /\ sCalls' = <<>> \/ hit
          /\ (/\ ValidIndex(index)
              /\ instance \in 0..(m_nInstanceCount[index] - 1)) => hit]_vars

\* pitch() with the index defaulted and an explicit instance other than the
\* last-played one has called SetPitch on that explicit instance of the
\* last-played sound.
C9_Witness ==
  /\ sOp.name = "pitch"
  /\ sOp.index = -1
  /\ sOp.instance >= 0
  /\ sOp.instance # m_nLastPlayedInstance
  /\ LastInRange
  /\ \E v \in Values :
       sCalls = <<Call("SetPitch", m_nLastPlayedSound, sOp.instance, v)>>

(***************************************************************************)
(* Claims about CSpriteManager, checked under SpecSprite                   *)
(***************************************************************************)

\* C10: Draw(id) on an empty slot makes no device-context call and changes
\* nothing; on a slot that holds a sprite it makes exactly one draw call,
\* of 4 vertices, with that sprite's texture and vertex buffer bound.
C10_DrawEmptyOrOnce ==
  [][dOp'.name = "Draw" =>
       LET o == m_pSprite[dOp'.sprite]
           draws == {i \in DOMAIN dCalls' : dCalls'[i].fn = "Draw"}
       IN IF o = 0
            THEN /\ dCalls' = <<>>
                 /\ UNCHANGED <<g_xmlSettings, m_pSprite, sprites, resources,
                                dcTexture, dcVertexBuffer, proc>>
            ELSE /\ Cardinality(draws) = 1
                 /\ \A i \in draws : dCalls'[i].arg = 4
                 /\ dcTexture' = sprites[o].m_pTexture
                 /\ dcVertexBuffer' = sprites[o].m_pVertexBuffer
                 /\ UNCHANGED <<g_xmlSettings, m_pSprite, sprites, resources,
                                proc>>]_vars

\* Draw() has drawn the second sprite object constructed, loaded into a slot
\* under the known name, while another slot is empty.
C10_Witness ==
  /\ dOp.name = "Draw"
  /\ m_pSprite[dOp.sprite] = 2
  /\ sprites[2].m_pTexture # 0
  /\ dcTexture = sprites[2].m_pTexture
  /\ Len(dCalls) = 3
  /\ dCalls[3] = DCall("Draw", 4)
  /\ \E i \in Slots : m_pSprite[i] = 0

\* A sprite object whose texture and vertex buffer both exist.
Loaded(o) ==
  /\ o \in DOMAIN sprites
  /\ sprites[o].m_pTexture # 0
  /\ sprites[o].m_pVertexBuffer # 0

\* C11 as stated: CSpriteManager::Load(id, name) either aborts the process
\* with its diagnostic or returns with slot id holding a loaded sprite; with
\* the settings or the <sprites> tag missing it aborts.
C11_Original ==
  [][dOp'.name = "Load" =>
       /\ \/ proc' = "aborted"
          \/ proc' = "running" /\ Loaded(m_pSprite'[dOp'.sprite])
       /\ g_xmlSettings # "sprites" => proc' = "aborted"]_vars

(***************************************************************************)
(* Claims about CTimer's frame time and level timer                        *)
(***************************************************************************)

\* C15: endframe() sets the frame time to zero in step mode and out of it,
\* and a frame time of zero becomes nonzero only through a beginframe() out
\* of step mode or an IncrementFrame() in step mode; so from the
\* constructor's zero on, frametime() is nonzero only between one of these
\* and the next endframe().
C15_EndframeResets ==
  [][/\ tOp'.name = "endframe" => m_nFrameTime' = 0
     /\ (m_nFrameTime = 0 /\ m_nFrameTime' # 0)
          => \/ tOp'.name = "beginframe" /\ ~m_bStepMode
             \/ tOp'.name = "IncrementFrame" /\ m_bStepMode]_vars

\* In step mode, after at least one frame began past clock 0, endframe() has
\* left a frame time of zero.
C15_Witness ==
  /\ tOp.name = "endframe"
  /\ m_bStepMode
  /\ m_nFrameTime = 0
  /\ m_nLastFrameStartTime > 0

\* C16: once StartLevelTimer() was called at clock t0,
\* GetLevelElapsedTime() returns the clock now minus t0 while the level
\* timer runs, and t1 - t0 once StopLevelTimer() was called at clock t1,
\* whatever the clock, beginframe(), endframe() and the step mode did since.
C16_LevelTimerIndependent ==
  [][(tOp'.name = "GetLevelElapsedTime" /\ lT0 >= 0)
       => lRet' = IF lT1 = -1 THEN clock - lT0 ELSE lT1 - lT0]_vars

\* In step mode, with the clock past the stop and the frame clock behind
\* it, a query of the stopped level timer has returned t1 - t0 > 0.
C16_Witness ==
  /\ tOp.name = "GetLevelElapsedTime"
  /\ m_bStepMode
  /\ lT0 >= 0
  /\ lT1 > lT0
  /\ clock > lT1
  /\ m_nCurrentTime < clock
  /\ lRet = lT1 - lT0

\* C17 as stated: in step mode IncrementFrame() stores 1/60 of a second in
\* milliseconds, 16 or 17.
C17_Original ==
  [][(tOp'.name = "IncrementFrame" /\ m_bStepMode)
       => m_nFrameTime' \in {16, 17}]_vars

(***************************************************************************)
(* Claims about CRenderer's screen text, checked under SpecText            *)
(***************************************************************************)

\* C12: every character c that drawtext() drew was taken from the cell
\* (row y, column) of the fixed table: A..Z -> (48, c - 'A'), a..z ->
\* (95, c - 'a'), 0..9 -> (0, c - '0'), anything else -> (1, 10).
C12_GlyphTable ==
  \A i \in DOMAIN glyphs :
    LET c == glyphs[i].c
    IN /\ c = rOp.text[i]
       /\ <<glyphs[i].y, glyphs[i].xoffset>> =
            IF c \in 65..90 THEN <<48, c - 65>>
            ELSE IF c \in 97..122 THEN <<95, c - 97>>
            ELSE IF c \in 48..57 THEN <<0, c - 48>>
            ELSE <<1, 10>>

\* drawtext("z ") has drawn z from (95, 25) and the space from (1, 10).
C12_Witness ==
  /\ rOp.name = "drawtext"
  /\ rOp.text = <<122, 32>>
  /\ Len(glyphs) = 2
  /\ <<glyphs[1].y, glyphs[1].xoffset>> = <<95, 25>>
  /\ <<glyphs[2].y, glyphs[2].xoffset>> = <<1, 10>>

\* C13 as stated: for every glyph drawn from column c and row y, the UV
\* rectangle uploaded has width frame width / sheet width, height frame
\* height / sheet height, and left edge (1 + c * (frame width + 1)) /
\* sheet width.
C13_Original ==
  \A i \in DOMAIN glyphs :
    LET b == glyphs[i].draw.cb
        t == m_pScreenText
    IN /\ FracEq(FracSub(b.u1, b.u0), Frac(t.m_nFrameWidth, t.m_nWidth))
       /\ FracEq(FracSub(b.v1, b.v0), Frac(t.m_nFrameHeight, t.m_nHeight))
       /\ FracEq(b.u0, Frac(1 + glyphs[i].xoffset * (t.m_nFrameWidth + 1),
                            t.m_nWidth))

\* C14 as stated: a text of L characters starts at x = (screen width - L *
\* frame width) / 2, each character is drawn one frame width right of the
\* one before, the cursor ends L frame widths from the start, and y and z
\* stay as they were.  (x, y and z are in half pixels.)
C14_Original ==
  rOp.name = "drawtext" =>
    LET L == Len(rOp.text)
        fw == m_pScreenText.m_nFrameWidth
    IN /\ Len(glyphs) = L
       /\ rOp.s.wrap = 0
       /\ rOp.s.x = m_nScreenWidth - L * fw
       /\ \A i \in DOMAIN glyphs :
            /\ glyphs[i].s.x = rOp.s.x + 2 * (i - 1) * fw
            /\ glyphs[i].draw.s.x = rOp.s.x + 2 * i * fw
            /\ glyphs[i].s.y = rOp.s.y
            /\ glyphs[i].s.z = rOp.s.z
            /\ glyphs[i].s.wrap = 0

\* C18: every failure to build the vertex or the pixel shader ends the
\* process, so that InitBackground never completes with a shader that failed
\* to build and no draw call is made with one: once InitBackground has
\* returned, both shaders exist, and every VSSetShader and PSSetShader
\* binds one.
C18_Original ==
  /\ m_pShader.built
       => m_pShader.m_pVertexShader # 0 /\ m_pShader.m_pPixelShader # 0
  /\ \A i \in DOMAIN dCalls :
       dCalls[i].fn \in {"VSSetShader", "PSSetShader"} => dCalls[i].arg # 0

\* C19: after draw(), drawtop() or DrawBackground(), whatever was called
\* before, the constant buffer holds the world-view-projection matrix of
\* the current world matrix and the whole texture (0, 1, 0, 1), and it was
\* uploaded before the draw call was issued.
C19_FullTextureUploaded ==
  [][rOp'.name \in {"draw", "drawtop", "DrawBackground"}
       => /\ cb'.wvp = CalculateWorldViewProjectionMatrix(m_matWorld')
          /\ FracEq(cb'.u0, Frac(0, 1)) /\ FracEq(cb'.u1, Frac(1, 1))
          /\ FracEq(cb'.v0, Frac(0, 1)) /\ FracEq(cb'.v1, Frac(1, 1))
          /\ \A i \in DOMAIN dCalls' :
               dCalls'[i].fn = "Draw"
                 => \E j \in 1..(i - 1) :
                      dCalls'[j].fn = "UpdateSubresource"]_vars

\* C19 witness: a loaded sprite has been drawn by draw() straight after
\* drawtext() drew a character with its part of the sheet.
C19_Witness ==
  /\ rOp.name = "draw"
  /\ rPrev = "drawtext"
  /\ m_pSprite[rOp.sprite] # 0
  /\ \E i \in DOMAIN dCalls : dCalls[i].fn = "Draw"
  /\ FracEq(cb.u1, Frac(1, 1))

\* C20: drawtop(id, s, angle, size) draws what
\* draw(id, (s.x, screenHeight - s.y, s.z), angle, size, size) draws: the
\* world matrix is the one of that pose with size as both scales.
C20_Original ==
  [][rOp'.name = "drawtop"
       => m_matWorld' =
            SetWorldMatrix([rOp'.s EXCEPT !.y = 2 * g_nScreenHeight - @],
                           rOp'.angle, rOp'.xsize, rOp'.ysize)]_vars

\* A step in which CSpriteSheet::Load ran on the sheet and returned.
SheetLoaded ==
  /\ m_pScreenText'.loads = m_pScreenText.loads + 1
  /\ proc' = "running"

\* The members of the sheet that a load may not touch when it only replaces
\* the texture.
QuadOf(sheet) ==
  <<sheet.m_pVertexBuffer, sheet.quadW, sheet.quadH, sheet.quads,
    sheet.m_nFrameWidth, sheet.m_nFrameHeight>>

C22_Original ==
  /\ m_pScreenText.leaked = {}
  /\ \A o \in DOMAIN sprites :
       sprites[o].deleted > 0
         => \A r \in {sprites[o].m_pTexture, sprites[o].m_pVertexBuffer} \ {0} :
              resources[r] = "released"

\* C23: every sprite object the registry constructed is still held by a
\* slot or has been destroyed, none is destroyed twice, and all are
\* destroyed once the registry is.
C23_Original ==
  /\ \A o \in DOMAIN sprites :
       /\ o \in Held \/ sprites[o].deleted = 1
       /\ sprites[o].deleted <= 1
  /\ dOp.name = "~CSpriteManager"
       => \A o \in DOMAIN sprites : sprites[o].deleted = 1

\* C24 as stated: every time the timer holds is relative to the time start()
\* recorded: the last-frame start time is the current time, and a level
\* timer started (or stopped) at the instant of a beginframe() holds the
\* value time() returns.
C24_Original ==
  [][/\ tOp'.name = "beginframe"
          => m_nLastFrameStartTime' = m_nCurrentTime'
     /\ (tOp'.name = "StartLevelTimer" /\ tOp.name = "beginframe")
          => m_nLevelStartTime' = m_nCurrentTime
     /\ (tOp'.name = "StopLevelTimer" /\ tOp.name = "beginframe")
          => m_nLevelFinishTime' = m_nCurrentTime]_vars

\* C24, corrected: only the current time is relative to the time start()
\* recorded; the last-frame start time and the level start and finish times
\* are readings of the clock itself, so that at one instant each of them is
\* time() plus the recorded start time.
C24_OnlyTimeSinceStart ==
  [][/\ tOp'.name = "beginframe"
          => /\ m_nCurrentTime' = clock - m_nStartTime
             /\ m_nLastFrameStartTime' = m_nCurrentTime' + m_nStartTime
     /\ (tOp'.name = "StartLevelTimer" /\ tOp.name = "beginframe")
          => m_nLevelStartTime' = m_nCurrentTime + m_nStartTime
     /\ (tOp'.name = "StopLevelTimer" /\ tOp.name = "beginframe")
          => m_nLevelFinishTime' = m_nCurrentTime + m_nStartTime]_vars

\* C24 witness: the timer was started after the clock's zero, and the level
\* timer was started at the instant of the last beginframe(): the level
\* start time is not what time() returns.
C24_Witness ==
  /\ tOp.name = "StartLevelTimer"
  /\ m_nStartTime > 0
  /\ m_nLastFrameStartTime = clock
  /\ m_nCurrentTime = clock - m_nStartTime
  /\ m_nLevelStartTime = m_nCurrentTime + m_nStartTime
  /\ m_nLevelStartTime # m_nCurrentTime

\* C25: time() keeps its value through a frame: only beginframe() changes
\* it, to the clock it samples minus the time start() recorded; the clock
\* moving on, endframe(), IncrementFrame() and ToggleStepMode() leave it
\* alone, and elapsed() compares against that same value.
C25_TimeFixedInFrame ==
  [][/\ tOp'.name = "beginframe" => m_nCurrentTime' = clock - m_nStartTime
     /\ tOp'.name # "beginframe" => m_nCurrentTime' = m_nCurrentTime
     /\ tOp'.name = "elapsed"
          => tRet' = (m_nCurrentTime >= start + tOp'.interval)]_vars

\* C25 witness: the clock has moved on since the last beginframe(), the step
\* mode was used, and elapsed() found its interval over by the frame's time.
C25_Witness ==
  /\ tOp.name = "elapsed"
  /\ tRet
  /\ clock > m_nLastFrameStartTime
  /\ m_bStepMode
  /\ m_nCurrentTime > 0
  /\ m_nCurrentTime = m_nLastFrameStartTime - m_nStartTime

\* C26: drawtext() of a text of L characters makes exactly L draw calls of 4
\* vertices, one per character in the order of the text and from left to
\* right; before each draw, and after the draw before it, the constant
\* buffer is uploaded with the character's transform and texture rectangle,
\* and the cursor moves on by a frame width only after the draw.
C26_GlyphByGlyph ==
  rOp.name = "drawtext"
    => LET L == Len(rOp.text)
           fw == m_pScreenText.m_nFrameWidth
           Draws == {i \in DOMAIN dCalls : dCalls[i].fn = "Draw"}
           Uploads == {i \in DOMAIN dCalls :
                         dCalls[i].fn = "UpdateSubresource"}
       IN /\ Len(glyphs) = L
          /\ Cardinality(Draws) = L
          /\ Cardinality(Uploads) = L
          /\ \A d \in Draws :
               /\ dCalls[d].arg = 4
               /\ \E u \in Uploads :
                    /\ u < d
                    /\ \A e \in Draws : ~(u < e /\ e < d)
          /\ \A i \in 1..L :
               /\ glyphs[i].c = rOp.text[i]
               /\ glyphs[i].s = [rOp.s EXCEPT !.x = @ + 2 * (i - 1) * fw]
               /\ glyphs[i].draw.world = SetWorldMatrix(glyphs[i].s, 0, 1, 1)
               /\ glyphs[i].draw.cb.wvp =
                    CalculateWorldViewProjectionMatrix(glyphs[i].draw.world)
               /\ glyphs[i].draw.cb.u0 =
                    Frac(1 + CellOf(glyphs[i].c).xoffset * (fw + 1),
                         m_pScreenText.m_nWidth - 1)
               /\ glyphs[i].draw.s = [glyphs[i].s EXCEPT !.x = @ + 2 * fw]
               /\ LET d == 10 * i
                  IN /\ d \in Draws
                     /\ d - 4 \in Uploads

\* C26 witness: drawtext("Az") has drawn its two characters.
C26_Witness ==
  /\ rOp.name = "drawtext"
  /\ rOp.text = <<65, 122>>
  /\ Len(glyphs) = 2
  /\ Len(dCalls) = 20
  /\ dCalls[20].fn = "Draw"
  /\ glyphs[2].s.x = glyphs[1].s.x + 2 * TextFrameWidth

\* Whether the last call was a play() or loop() on a loaded sound that found
\* every instance playing and so started nothing.
Dropped ==
  /\ sOp.name \in {"play", "loop"}
  /\ sOp.index \in DOMAIN m_nInstanceCount
  /\ sRet = m_nInstanceCount[sOp.index]

\* A move(), pitch() or volume() call with both arguments defaulted.
DefaultedCall(op) ==
  /\ op.name \in {"move", "pitch", "volume"}
  /\ op.index = -1
  /\ op.instance = -1

\* C27: a play() or loop() dropped because all n instances of the sound are
\* playing leaves the last-played pair at (index, n), which names no
\* instance; a move(), pitch() or volume() with defaulted arguments that
\* follows it calls no instance at all and changes no instance's state.
C27_DroppedPlayDisarmsDefaults ==
  [][/\ Dropped' =>
          /\ sCalls' = <<>>
          /\ m_nLastPlayedSound' = sOp'.index
          /\ m_nLastPlayedInstance' = m_nInstanceCount'[sOp'.index]
          /\ m_nLastPlayedInstance' \notin DOMAIN instState'[sOp'.index]
     /\ (Dropped /\ DefaultedCall(sOp')) =>
          /\ sCalls' = <<>>
          /\ instState' = instState
          /\ sFault' = "none"]_vars

\* A defaulted call has just run while the last-played pair was the one a
\* dropped request left: every instance of the sound is playing, one of them
\* started by the last successful play, and none was called.
C27_Witness ==
  /\ DefaultedCall(sOp)
  /\ sPrev = "other"
  /\ m_nLastPlayedSound \in DOMAIN m_nInstanceCount
  /\ m_nLastPlayedInstance = m_nInstanceCount[m_nLastPlayedSound]
  /\ m_nInstanceCount[m_nLastPlayedSound] = MaxInst
  /\ \A j \in DOMAIN instState[m_nLastPlayedSound] :
       instState[m_nLastPlayedSound][j] = "PLAYING"
  /\ sCalls = <<>>

\* C28: every beginframe() stores the clock it read as the start of the last
\* frame, in step mode too, where only the frame time is left alone; nothing
\* else writes that timestamp.  So a beginframe() outside step mode, the first
\* after step mode was switched off included, reports the clock time since
\* the beginframe() immediately before it.
C28_LastStartAlwaysUpdated ==
  [][/\ tOp'.name = "beginframe" =>
          /\ m_nLastFrameStartTime' = clock
          /\ m_bStepMode => m_nFrameTime' = m_nFrameTime
          /\ ~m_bStepMode => m_nFrameTime' = clock - m_nLastFrameStartTime
     /\ tOp'.name # "beginframe" =>
          m_nLastFrameStartTime' = m_nLastFrameStartTime]_vars

\* beginframe() has just run in step mode after the clock moved on: the frame
\* time is still the one IncrementFrame() stored, and the start of the last
\* frame is the clock just read.
C28_Witness ==
  /\ tOp.name = "beginframe"
  /\ m_bStepMode
  /\ m_nFrameTime = StepFrameTime
  /\ m_nLastFrameStartTime = clock
  /\ clock > m_nStartTime + MaxStep

\* The slots of m_pIEDesc that CreateInputLayout reads.
LayoutSlots == 0..(m_pShader.layoutCount - 1)

\* C30: the shader's input layout is built from exactly the descriptors that
\* were added: 0 <= m_nNumDescs <= m_nMaxDescs after any sequence of
\* AddInputElementDesc calls, and the count handed to CreateInputLayout is
\* the number of descriptors added, so that no unfilled slot is read.
C30_Original ==
  /\ 0 <= m_pShader.m_nNumDescs
  /\ m_pShader.m_nNumDescs <= m_pShader.m_nMaxDescs
  /\ m_pShader.layoutCount # -1 =>
       /\ m_pShader.layoutCount = m_pShader.m_nNumDescs
       /\ \A i \in LayoutSlots : m_pShader.m_pIEDesc[i].set

\* The position of the first call of fn in calls, 0 if there is none.
FirstCall(calls, fn) ==
  IF \E i \in DOMAIN calls : calls[i] = fn
    THEN CHOOSE i \in DOMAIN calls :
           /\ calls[i] = fn
           /\ \A j \in 1..(i - 1) : calls[j] # fn
    ELSE 0

\* C29: in the message loop a waiting message is retrieved and dispatched
\* before any frame is processed: ProcessFrame() runs only in an iteration
\* that finds the queue empty and the application active; with the queue
\* empty and the application inactive the loop enters WaitMessage(),
\* processes no frame and goes on only by dispatching a message; and the
\* loop returns only on the quit message, which is posted only by the
\* WM_DESTROY case, after it ran EndGame().
C29_MessagesBeforeFrames ==
  [][/\ mOp'.name = "ProcessFrame" =>
          /\ loopPc = "loop"
          /\ msgQueue = <<>>
          /\ ~quitPosted
          /\ g_bActiveApp
     /\ (mOp'.name \in LoopSteps /\ msgQueue # <<>>) =>
          /\ mOp' = MainOp("DispatchMessage", Head(msgQueue))
          /\ frames' = frames
     /\ (mOp'.name \in LoopSteps /\ msgQueue = <<>> /\ ~quitPosted
           /\ ~g_bActiveApp) =>
          /\ mOp'.name = "WaitMessage"
          /\ loopPc' = "waiting"
          /\ frames' = frames
     /\ (mOp'.name \in LoopSteps /\ loopPc = "waiting") =>
          mOp'.name = "DispatchMessage"
     /\ (loopPc' = "returned" /\ loopPc # "returned") =>
          /\ mOp' = MainOp("return", Msg("WM_QUIT", 0))
          /\ quitPosted
          /\ ended = 1
     /\ (quitPosted' /\ ~quitPosted) =>
          /\ FirstCall(mCalls', "EndGame") > 0
          /\ FirstCall(mCalls', "EndGame")
               < FirstCall(mCalls', "PostQuitMessage")
          /\ ended' = 1]_vars

\* The loop has returned after processing frames: the quit message was
\* posted, and EndGame() ran once.
C29_Witness ==
  /\ loopPc = "returned"
  /\ mOp.name = "return"
  /\ frames > 0
  /\ quitPosted
  /\ ended = 1

====
